---- MODULE Spec2Model ----
(***************************************************************************)
(* Lineage-Diagram-Engine: the builder API (Lineage / Bundle), the bundle  *)
(* stacking solver, the per-lineage compile state machine, the merge       *)
(* resolver and the Diagram.generate pipeline.                             *)
(*                                                                         *)
(* Numbers.  X coordinates are integers counted in units of 1e-3 (the      *)
(* nudge the code adds to X in centre queries), so x + 1e-3 is x + 1 and   *)
(* 1e-5 is 1/100.  Y coordinates and widths are exact rationals <<n, d>>   *)
(* with d > 0 in lowest terms; <<0, 0>> stands for Python's None.          *)
(* Bundles carry no shift events here, so a bundle baseline is one         *)
(* horizontal svg.Line whose normal is 1j: a point offset along the normal *)
(* keeps its X and moves in Y by the offset.                               *)
(***************************************************************************)
EXTENDS Integers, Sequences, FiniteSets, TLC

VARIABLES
  view_width,   \* Diagram.view_width
  resolution,   \* Diagram.resolution
  lineages,     \* Diagram.lineages: sequence of Lineage records (registration order)
  bundles,      \* Diagram.bundles: sequence of Bundle records (registration order)
  pc,           \* position of the client / of Diagram.generate
  bidx,         \* generate: index of the bundle being solved
  lidx,         \* generate: index of the lineage being compiled
  cs,           \* compile_segments: the locals of the running loop
  trace,        \* history of the solve_geometry / compile_segments calls of generate
  ncalls,       \* number of builder calls made so far
  fn            \* scratch record of the pure-function specifications

vars == <<view_width, resolution, lineages, bundles, pc, bidx, lidx, cs, trace, ncalls, fn>>

----------------------------------------------------------------------------
(* Bounds of the model *)

MaxX        == 6   \* the view width of the diagram
MaxCalls    == 3   \* builder calls per diagram
MaxSegments == 8   \* computed_segments entries kept (longer lists saturate)
MaxEvents   == 3   \* scale events of the lineage whose width is queried
MaxParents  == 3   \* parents of a merge layout

----------------------------------------------------------------------------
(* Exact rational arithmetic *)

Abs(n) == IF n < 0 THEN -n ELSE n

RECURSIVE GCD(_, _)
GCD(a, b) == IF b = 0 THEN a ELSE GCD(b, a % b)

Norm(n, d) ==
  LET g == GCD(Abs(n), d) IN <<n \div g, d \div g>>

Rat(i)     == <<i, 1>>
NoneR      == <<0, 0>>
IsNone(a)  == a[2] = 0
Zero       == Rat(0)
One        == Rat(1)
Half       == <<1, 2>>
RAdd(a, b) == Norm(a[1] * b[2] + b[1] * a[2], a[2] * b[2])
RNeg(a)    == <<-a[1], a[2]>>
RSub(a, b) == RAdd(a, RNeg(b))
RMul(a, b) == Norm(a[1] * b[1], a[2] * b[2])
RDiv(a, b) == IF b[1] > 0 THEN Norm(a[1] * b[2], a[2] * b[1])
                          ELSE Norm(-(a[1] * b[2]), a[2] * (-b[1]))
RLt(a, b)  == a[1] * b[2] < b[1] * a[2]
RLe(a, b)  == a[1] * b[2] <= b[1] * a[2]
RMin(a, b) == IF RLe(a, b) THEN a ELSE b
RMax(a, b) == IF RLe(a, b) THEN b ELSE a

RECURSIVE RSum(_)
RSum(s) == IF s = <<>> THEN Zero ELSE RAdd(Head(s), RSum(Tail(s)))

\* 1e-5 in the model's X / Y unit of 1e-3
Tol5 == <<1, 100>>

----------------------------------------------------------------------------
(* utils.py *)

\* the cubic smoothstep 3r^2 - 2r^3 in place of the quintic
smootherstepMutCubic(linear) ==
  IF RLe(linear, Zero) THEN Zero
  ELSE IF RLe(One, linear) THEN One
  ELSE RMul(RMul(linear, linear), RSub(Rat(3), RMul(Rat(2), linear)))

smootherstep(linear) ==
  IF RLe(linear, Zero) THEN Zero
  ELSE IF RLe(One, linear) THEN One
  ELSE LET squared == RMul(linear, linear)
           cubed   == RMul(linear, squared)
       IN RMul(cubed, RAdd(RSub(RMul(Rat(6), squared), RMul(Rat(15), linear)), Rat(10)))

----------------------------------------------------------------------------
(* paths.py: events and the two path capabilities *)

JOIN  == "JOIN"
LEAVE == "LEAVE"
NoX   == -1     \* end_x is None
NoRef == 0      \* a bundle / lineage reference that is None

MembershipEvent(from_x, to_x, type, assembly, target_y, target_lineage, offset_y) ==
  [from_x |-> from_x, to_x |-> to_x, type |-> type, assembly |-> assembly,
   target_y |-> target_y, target_lineage |-> target_lineage, offset_y |-> offset_y]

ShiftEvent(from_x, to_x, to_y, target_lineage, offset_y) ==
  [from_x |-> from_x, to_x |-> to_x, to_y |-> to_y,
   target_lineage |-> target_lineage, offset_y |-> offset_y]

ScaleEvent(from_x, to_x, to_w) ==
  [from_x |-> from_x, to_x |-> to_x, to_w |-> to_w]

\* a sort that leaves the list as it is
SortByFromXMutKeep(s) == s

\* list.sort(key = from_x): a stable sort
RECURSIVE InsertByFromX(_, _)
InsertByFromX(e, s) ==
  IF s = <<>> THEN <<e>>
  ELSE IF e.from_x < Head(s).from_x THEN <<e>> \o s
  ELSE <<Head(s)>> \o InsertByFromX(e, Tail(s))

RECURSIVE SortByFromX(_)
SortByFromX(s) ==
  IF s = <<>> THEN <<>>
  ELSE LET n == Len(s) IN InsertByFromX(s[n], SortByFromX(SubSeq(s, 1, n - 1)))

\* the walk of ScalablePath.get_width_at over the sorted events
RECURSIVE WidthWalk(_, _, _)
WidthWalk(events, last_width, x) ==
  IF events = <<>> THEN last_width
  ELSE LET scale_event == Head(events) IN
    IF x <= scale_event.from_x THEN last_width
    ELSE IF scale_event.from_x < x /\ x < scale_event.to_x THEN
      LET ratio_linear == Norm(x - scale_event.from_x, scale_event.to_x - scale_event.from_x)
          ratio_smooth == smootherstep(ratio_linear)
      IN RAdd(last_width, RMul(RSub(scale_event.to_w, last_width), ratio_smooth))
    ELSE WidthWalk(Tail(events), scale_event.to_w, x)

get_width_atMutNoSort(start_w, scale_events, end_x, x) ==
  IF end_x # NoX /\ x > end_x THEN Zero
  ELSE WidthWalk(scale_events, start_w, x)

get_width_at(start_w, scale_events, end_x, x) ==
  IF end_x # NoX /\ x > end_x THEN Zero
  ELSE WidthWalk(SortByFromX(scale_events), start_w, x)

LineageWidthAt(l, x) == get_width_at(l.start_w, l.scale_events, l.end_x, x)

\* the lineage after a get_width_at(x) call: the call sorts scale_events in place
\* unless it returns early
WidthQueried(l, x) ==
  IF l.end_x # NoX /\ x > l.end_x THEN l
  ELSE [l EXCEPT !.scale_events = SortByFromX(@)]

\* ShiftablePath.get_baseline_path: the pieces of the svg.Path, each a record
\* [kind, p0, p1] with points <<x, y>>; equal end points add no piece
Line(p0, p1)        == [kind |-> "Line", p0 |-> p0, p1 |-> p1]
CubicBezier(p0, p1) == [kind |-> "CubicBezier", p0 |-> p0, p1 |-> p1]

RECURSIVE BaselineWalk(_, _, _)
BaselineWalk(events, last_point, path) ==
  IF events = <<>> THEN <<last_point, path>>
  ELSE
    LET shift             == Head(events)
        start_shift_point == <<shift.from_x, last_point[2]>>
        path1             == IF start_shift_point # last_point
                             THEN Append(path, Line(last_point, start_shift_point))
                             ELSE path
        resolved_to_y     == shift.to_y
        end_shift_y       == RAdd(IF IsNone(resolved_to_y) THEN Zero ELSE resolved_to_y,
                                  shift.offset_y)
        end_shift_point   == <<shift.to_x, end_shift_y>>
        path2             == IF start_shift_point # end_shift_point
                             THEN Append(path1, CubicBezier(start_shift_point, end_shift_point))
                             ELSE path1
    IN BaselineWalk(Tail(events), end_shift_point, path2)

\* a baseline that walks the shift events in the order they were added
get_baseline_pathMutNoSort(start_x, start_y, shift_events, end_x) ==
  LET walked          == BaselineWalk(shift_events, <<start_x, start_y>>, <<>>)
      last_point      == walked[1]
      effective_end_x == IF end_x # NoX THEN end_x ELSE 999999
      end_point       == <<effective_end_x, last_point[2]>>
  IN IF end_point # last_point THEN Append(walked[2], Line(last_point, end_point))
                               ELSE walked[2]

get_baseline_path(start_x, start_y, shift_events, end_x) ==
  LET walked          == BaselineWalk(SortByFromX(shift_events), <<start_x, start_y>>, <<>>)
      last_point      == walked[1]
      effective_end_x == IF end_x # NoX THEN end_x ELSE 999999
      end_point       == <<effective_end_x, last_point[2]>>
  IN IF end_point # last_point THEN Append(walked[2], Line(last_point, end_point))
                               ELSE walked[2]

----------------------------------------------------------------------------
(* bundle.py *)

BundleMembership(lineage, start_x, end_x, fade_in_duration, fade_out_duration) ==
  [lineage |-> lineage, start_x |-> start_x, end_x |-> end_x,
   fade_in_duration |-> fade_in_duration, fade_out_duration |-> fade_out_duration]

add_member(b, lineage, start_x, end_x, fade_in_duration, index) ==
  LET new_membership == BundleMembership(lineage, start_x, end_x, fade_in_duration, 0)
      n              == Len(b.memberships)
      \* list.insert(index, ..) with Python's clamping of the position
      pos            == IF index >= n THEN n ELSE IF index >= 0 THEN index
                        ELSE IF n + index >= 0 THEN n + index ELSE 0
  IN [b EXCEPT !.memberships =
        IF index = -1 THEN Append(b.memberships, new_membership)
        ELSE SubSeq(b.memberships, 1, pos) \o <<new_membership>>
             \o SubSeq(b.memberships, pos + 1, n)]

get_memberships_at(b, x) ==
  SelectSeq(b.memberships, LAMBDA membership : membership.start_x <= x /\ x <= membership.end_x)

\* a presence factor that ramps linearly
_get_factorMutLinear(membership, x) ==
  IF x < membership.start_x + membership.fade_in_duration THEN
    IF RLe(Rat(membership.fade_in_duration), Tol5) THEN One
    ELSE RMax(Zero, Norm(x - membership.start_x, membership.fade_in_duration))
  ELSE IF x > membership.end_x - membership.fade_out_duration THEN
    IF RLe(Rat(membership.fade_out_duration), Tol5) THEN One
    ELSE RMax(Zero, RSub(One, Norm(x - (membership.end_x - membership.fade_out_duration),
                                   membership.fade_out_duration)))
  ELSE One

_get_factor(membership, x) ==
  IF x < membership.start_x + membership.fade_in_duration THEN
    IF RLe(Rat(membership.fade_in_duration), Tol5) THEN One
    ELSE smootherstep(Norm(x - membership.start_x, membership.fade_in_duration))
  ELSE IF x > membership.end_x - membership.fade_out_duration THEN
    IF RLe(Rat(membership.fade_out_duration), Tol5) THEN One
    ELSE LET start_fade_out == membership.end_x - membership.fade_out_duration
         IN RSub(One, smootherstep(Norm(x - start_fade_out, membership.fade_out_duration)))
  ELSE One

\* a start correction that takes nothing from the gaps
StartCorrectionMutNone(gaps, index, start_excess) == gaps

\* the start correction loop of _calculate_layout, from gap `index` on
RECURSIVE StartCorrection(_, _, _)
StartCorrection(gaps, index, start_excess) ==
  IF index > Len(gaps) \/ RLe(start_excess, Tol5) THEN gaps
  ELSE LET correction == RMin(gaps[index], start_excess)
       IN StartCorrection([gaps EXCEPT ![index] = RSub(gaps[index], correction)],
                          index + 1, RSub(start_excess, correction))

\* the end correction loop of _calculate_layout, from gap `index` down
RECURSIVE EndCorrection(_, _, _)
EndCorrection(gaps, index, end_excess) ==
  IF index < 1 \/ RLe(end_excess, Tol5) THEN gaps
  ELSE LET correction == RMin(gaps[index], end_excess)
       IN EndCorrection([gaps EXCEPT ![index] = RSub(gaps[index], correction)],
                        index - 1, RSub(end_excess, correction))

\* _calculate_layout once the fade factors of the memberships are known
LayoutOfFactors(b, ls, memberships, x, factors) ==
  LET count   == Len(memberships)
      effective_widths ==
        [i \in 1..count |-> RMul(LineageWidthAt(ls[memberships[i].lineage], x), factors[i])]
      half_margin == RMul(Half, b.margin)
      \* the list of gaps, built as a sequence before the corrections update it
      gaps0   == SubSeq([i \in 1..count |-> IF i < count
                                            THEN RMul(half_margin, RAdd(factors[i], factors[i + 1]))
                                            ELSE Zero],
                        1, count - 1)
      start_excess == RMul(half_margin, RSub(One, factors[1]))
      end_excess   == RMul(half_margin, RSub(One, factors[count]))
      gaps1   == IF count > 1
                 THEN EndCorrection(StartCorrection(gaps0, 1, start_excess),
                                    count - 1, end_excess)
                 ELSE <<>>
      gaps    == IF count > 0 THEN Append(gaps1, Zero) ELSE gaps1
  IN <<effective_widths, gaps>>

\* returns <<effective_widths, gaps>>; ls is the diagram's lineage list
_calculate_layout(b, ls, memberships, x) ==
  LayoutOfFactors(b, ls, memberships, x,
                  [i \in 1..Len(memberships) |-> _get_factor(memberships[i], x)])

\* a walk that never advances: every member starts at the top
OffsetBeforeMutNoAdvance(widths, gaps, bundle_width, i) == RNeg(RMul(Half, bundle_width))

\* current_offset of member i in the stacking walk shared by solve_geometry and
\* _get_member_geometry_at: -bundle_width / 2 plus the widths and gaps before i
RECURSIVE OffsetBefore(_, _, _, _)
OffsetBefore(widths, gaps, bundle_width, i) ==
  IF i = 1 THEN RNeg(RMul(Half, bundle_width))
  ELSE RAdd(OffsetBefore(widths, gaps, bundle_width, i - 1),
            RAdd(widths[i - 1], gaps[i - 1]))

\* a bundle width that counts the member widths alone, the gaps left out
BundleWidthMutNoGaps(widths, gaps) == RSum(widths)

\* bundle_width = sum(widths) + sum(gaps)
BundleWidth(widths, gaps) == RAdd(RSum(widths), RSum(gaps))

\* the slot of one member: upper_offset = current_offset + width
StackSlot(lineage, current_offset, width) ==
  [lineage      |-> lineage,
   lower_offset |-> current_offset,
   upper_offset |-> RAdd(current_offset, width)]

\* the stacking walk over the active memberships
StackWalk(memberships, widths, gaps, bundle_width) ==
  [i \in 1..Len(memberships) |->
     StackSlot(memberships[i].lineage, OffsetBefore(widths, gaps, bundle_width, i),
               widths[i])]

StackLayout(memberships, layout) ==
  StackWalk(memberships, layout[1], layout[2], BundleWidth(layout[1], layout[2]))

StackMembers(b, ls, memberships, x) ==
  StackLayout(memberships, _calculate_layout(b, ls, memberships, x))

\* the (lower_offset, upper_offset) pairs of the members active at x
StackOffsets(b, ls, x) == StackMembers(b, ls, get_memberships_at(b, x), x)

\* a lookup that takes the slots of every member active at x
MemberSlotsMutAny(b, ls, x, lineage) == StackOffsets(b, ls, x)

\* the slots of `lineage` among the members active at x
MemberSlots(b, ls, x, lineage) ==
  SelectSeq(StackOffsets(b, ls, x), LAMBDA s : s.lineage = lineage)

\* X of the i-th of `res` samples np.linspace(0, 1, res) along the bundle baseline
SampleX(b, vw, res, i) == b.start_x + ((i - 1) * (vw - b.start_x)) \div (res - 1)

\* upper_points.append / lower_points.append for the slots of one sample
AppendPoints(before, x, center_y, slots) ==
  <<before[1] \o [k \in 1..Len(slots) |-> <<x, RAdd(center_y, slots[k].upper_offset)>>],
    before[2] \o [k \in 1..Len(slots) |-> <<x, RAdd(center_y, slots[k].lower_offset)>>]>>

\* the points solve_geometry appends for `lineage`: <<upper_points, lower_points>>
RECURSIVE SolvedPoints(_, _, _, _, _, _)
SolvedPoints(b, ls, vw, res, lineage, i) ==
  IF i = 0 THEN <<<<>>, <<>>>>
  ELSE AppendPoints(SolvedPoints(b, ls, vw, res, lineage, i - 1),
                    SampleX(b, vw, res, i), b.start_y,
                    MemberSlots(b, ls, SampleX(b, vw, res, i), lineage))

Members(b) == {b.memberships[i].lineage : i \in 1..Len(b.memberships)}

solve_geometry(b, ls, vw, res) ==
  [b EXCEPT !.compiled_member_points =
     [lineage \in Members(b) |-> SolvedPoints(b, ls, vw, res, lineage, res)]]

\* find_t_at_x followed by baseline_path.point(t).real on the X-monotonic baseline:
\* the X on the path closest to x
XOnPath(b, vw, x) == IF x < b.start_x THEN b.start_x ELSE IF x > vw THEN vw ELSE x

\* the two points of a member at the path point <<x_on_path, center_y>>
MemberGeometry(x_on_path, center_y, slots) ==
  IF slots # <<>>
  THEN <<<<x_on_path, RAdd(center_y, slots[1].upper_offset)>>,
         <<x_on_path, RAdd(center_y, slots[1].lower_offset)>>>>
  ELSE <<<<x_on_path, center_y>>, <<x_on_path, center_y>>>>

\* returns <<upper_point, lower_point>>
_get_member_geometry_at(b, ls, vw, x, lineage) ==
  MemberGeometry(XOnPath(b, vw, x), b.start_y,
                 MemberSlots(b, ls, XOnPath(b, vw, x), lineage))

\* (upper + lower) / 2, the imaginary part
CenterY(geometry) == RMul(Half, RAdd(geometry[1][2], geometry[2][2]))

\* the Y (imaginary part) of get_center_point_of_member_at
CenterYOfMemberAt(b, ls, vw, x, lineage) ==
  CenterY(_get_member_geometry_at(b, ls, vw, x, lineage))

\* the start boundary check of get_compiled_points_for
PrependStart(upper, lower, start_x, geometry) ==
  IF upper = <<>> \/ RLt(RAdd(Rat(start_x), Tol5), Rat(upper[1][1]))
  THEN <<<<geometry[1]>> \o upper, <<geometry[2]>> \o lower>>
  ELSE <<upper, lower>>

\* the end boundary check of get_compiled_points_for
AppendEnd(filtered, end_x, geometry) ==
  IF filtered[1] = <<>>
     \/ RLt(Rat(filtered[1][Len(filtered[1])][1]), RSub(Rat(end_x), Tol5))
  THEN <<Append(filtered[1], geometry[1]), Append(filtered[2], geometry[2])>>
  ELSE filtered

\* returns <<upper_points, lower_points>>
get_compiled_points_for(b, ls, vw, lineage, start_x, end_x) ==
  IF lineage \notin DOMAIN b.compiled_member_points THEN <<<<>>, <<>>>>
  ELSE
    AppendEnd(
      PrependStart(
        SelectSeq(b.compiled_member_points[lineage][1],
                  LAMBDA p : start_x <= p[1] /\ p[1] <= end_x),
        SelectSeq(b.compiled_member_points[lineage][2],
                  LAMBDA p : start_x <= p[1] /\ p[1] <= end_x),
        start_x, _get_member_geometry_at(b, ls, vw, start_x, lineage)),
      end_x, _get_member_geometry_at(b, ls, vw, end_x, lineage))

----------------------------------------------------------------------------
(* segments.py *)

INDEPENDENT == "Independent"
DEPENDENT   == "Dependent"

\* scale_events is the owning lineage's own list (passed by reference): the segment
\* records the owner instead of a copy
IndependentSegment(start_x, start_y, start_w, end_x, shift_events, owner) ==
  [kind |-> INDEPENDENT, start_x |-> start_x, start_y |-> start_y, start_w |-> start_w,
   end_x |-> end_x, shift_events |-> shift_events, bundle |-> NoRef, lineage |-> owner]

DependentSegment(bundle, lineage, start_x, end_x) ==
  [kind |-> DEPENDENT, start_x |-> start_x, start_y |-> NoneR, start_w |-> Zero,
   end_x |-> end_x, shift_events |-> <<>>, bundle |-> bundle, lineage |-> lineage]

----------------------------------------------------------------------------
(* lineage.py: construction and the builder calls *)

Lineage(start_x, start_y, start_w) ==
  [start_x |-> start_x, start_y |-> start_y, start_w |-> start_w,
   membership_events |-> <<>>, shift_events |-> <<>>, scale_events |-> <<>>,
   computed_segments |-> <<>>, _initial_bundle |-> NoRef, end_x |-> NoX]

Bundle(start_x, start_y, margin) ==
  [start_x |-> start_x, start_y |-> start_y, margin |-> margin,
   shift_events |-> <<>>, memberships |-> <<>>, compiled_member_points |-> <<>>]

\* a diagram under construction: its lineage list and its bundle list
D(ls, bs) == [ls |-> ls, bs |-> bs]

create_in_bundle(d, vw, start_x, start_w, in_bundle, index, fade_in_duration) ==
  LET instance == [Lineage(start_x, Zero, start_w) EXCEPT !._initial_bundle = in_bundle]
      id       == Len(d.ls) + 1
  IN D(Append(d.ls, instance),
       [d.bs EXCEPT ![in_bundle] =
          add_member(@, id, start_x - fade_in_duration, vw, fade_in_duration, index)])

terminate_at(d, l, x) == D([d.ls EXCEPT ![l].end_x = x], d.bs)

shift_to(d, l, from_x, to_x, to_y, target_lineage, offset_y) ==
  D([d.ls EXCEPT ![l].shift_events =
       Append(@, ShiftEvent(from_x, to_x, to_y, target_lineage, offset_y))], d.bs)

scale_to(d, l, from_x, to_x, to_w) ==
  D([d.ls EXCEPT ![l].scale_events = Append(@, ScaleEvent(from_x, to_x, to_w))], d.bs)

join(d, vw, l, from_x, to_x, to_assembly, index) ==
  D([d.ls EXCEPT ![l].membership_events =
       Append(@, MembershipEvent(from_x, to_x, JOIN, to_assembly, NoneR, NoRef, Zero))],
    [d.bs EXCEPT ![to_assembly] = add_member(@, l, from_x, vw, to_x - from_x, index)])

\* the first membership whose interval contains from_x, whatever its lineage
RECURSIVE FirstMembershipAtMutAnyLineage(_, _, _, _)
FirstMembershipAtMutAnyLineage(memberships, l, from_x, i) ==
  IF i > Len(memberships) THEN 0
  ELSE IF memberships[i].start_x <= from_x /\ from_x <= memberships[i].end_x
       THEN i
       ELSE FirstMembershipAtMutAnyLineage(memberships, l, from_x, i + 1)

\* position of the first membership the leave back-patches, 0 when there is none
RECURSIVE FirstMembershipAt(_, _, _, _)
FirstMembershipAt(memberships, l, from_x, i) ==
  IF i > Len(memberships) THEN 0
  ELSE IF memberships[i].lineage = l /\ memberships[i].start_x <= from_x
          /\ from_x <= memberships[i].end_x
       THEN i
       ELSE FirstMembershipAt(memberships, l, from_x, i + 1)

leave(d, l, from_x, to_x, from_assembly, to_y, target_lineage, offset_y) ==
  LET i == FirstMembershipAt(d.bs[from_assembly].memberships, l, from_x, 1)
  IN D([d.ls EXCEPT ![l].membership_events =
          Append(@, MembershipEvent(from_x, to_x, LEAVE, from_assembly, to_y,
                                    target_lineage, offset_y))],
       IF i = 0 THEN d.bs
       ELSE [d.bs EXCEPT ![from_assembly].memberships[i] =
               [@ EXCEPT !.end_x = to_x, !.fade_out_duration = to_x - from_x]])

----------------------------------------------------------------------------
(* lineage.py: the merge resolver *)

\* a centre left where the proportional slot put it
ClampCenterMutNone(parent_center, parent_target_w, child_lower_edge, child_upper_edge) ==
  parent_center

\* parent_center after the clamp to the child's extent
ClampCenter(parent_center, parent_target_w, child_lower_edge, child_upper_edge) ==
  LET parent_upper_edge == RAdd(parent_center, RMul(Half, parent_target_w))
      parent_lower_edge == RSub(parent_center, RMul(Half, parent_target_w))
  IN IF RLt(child_upper_edge, parent_upper_edge)
     THEN RSub(parent_center, RSub(parent_upper_edge, child_upper_edge))
     ELSE IF RLt(parent_lower_edge, child_lower_edge)
     THEN RAdd(parent_center, RSub(child_lower_edge, parent_lower_edge))
     ELSE parent_center

\* current_slot_y before parent i
RECURSIVE SlotY(_, _, _, _)
SlotY(shares, start_y, start_w, i) ==
  IF i = 1 THEN RSub(start_y, RMul(Half, start_w))
  ELSE RAdd(SlotY(shares, start_y, start_w, i - 1), shares[i - 1])

\* a target width with the lower bound only
TargetWidthMutNoCap(width_at_from, proportional_share, start_w) ==
  RMax(width_at_from, proportional_share)

TargetWidth(width_at_from, proportional_share, start_w) ==
  RMin(RMax(width_at_from, proportional_share), start_w)

\* parents_widths: the parents' get_width_at(merge_from_x);
\* returns <<proportional_widths, adjusted_centers>>
_calculate_merge_layout(parents_widths, start_y, start_w) ==
  LET n                   == Len(parents_widths)
      total_parents_width == RSum(parents_widths)
      proportions         == [i \in 1..n |->
                                IF RLt(Zero, total_parents_width)
                                THEN RDiv(parents_widths[i], total_parents_width)
                                ELSE Norm(1, n)]
      proportional_shares == [i \in 1..n |-> RMul(start_w, proportions[i])]
      proportional_widths == [i \in 1..n |->
                                TargetWidth(parents_widths[i], proportional_shares[i], start_w)]
      parent_centers      == [i \in 1..n |->
                                RAdd(SlotY(proportional_shares, start_y, start_w, i),
                                     RMul(Half, proportional_shares[i]))]
      child_upper_edge    == RAdd(start_y, RMul(Half, start_w))
      child_lower_edge    == RSub(start_y, RMul(Half, start_w))
      adjusted_centers    == [i \in 1..n |->
                                ClampCenter(parent_centers[i], proportional_widths[i],
                                            child_lower_edge, child_upper_edge)]
  IN <<proportional_widths, adjusted_centers>>

\* the bundle create_from_merge finds the parent in at merge_from_x (NoRef: none)
RECURSIVE LastStateAt(_, _, _)
LastStateAt(events, merge_from_x, parent_bundle) ==
  IF events = <<>> THEN parent_bundle
  ELSE LET membership_event == Head(events) IN
    LastStateAt(Tail(events), merge_from_x,
                IF membership_event.from_x <= merge_from_x
                THEN (IF membership_event.type = JOIN THEN membership_event.assembly ELSE NoRef)
                ELSE parent_bundle)

ParentBundleAt(parent, merge_from_x) ==
  LET parent_bundle == LastStateAt(SortByFromX(parent.membership_events), merge_from_x, NoRef)
      has_left      == \E i \in 1..Len(parent.membership_events) :
                          /\ parent.membership_events[i].type = LEAVE
                          /\ parent.membership_events[i].from_x <= merge_from_x
  IN IF parent_bundle = NoRef /\ parent._initial_bundle # NoRef /\ ~has_left
     THEN parent._initial_bundle
     ELSE parent_bundle

\* the body of the loop over the parents, for parents[i..]
RECURSIVE InstallOnParents(_, _, _, _, _, _, _, _, _)
InstallOnParents(d, parents, widths, centers, merge_from_x, start_x, child, in_bundle, i) ==
  IF i > Len(parents) THEN d
  ELSE
    LET parent         == parents[i]
        parent_bundle  == ParentBundleAt(d.ls[parent], merge_from_x)
        target_lineage == IF in_bundle # NoRef THEN child ELSE NoRef
        target_y       == IF in_bundle = NoRef THEN centers[i] ELSE Zero
        offset_y       == IF in_bundle # NoRef THEN centers[i] ELSE Zero
        d1 == IF parent_bundle # NoRef
              THEN leave(d, parent, merge_from_x, start_x, parent_bundle,
                         target_y, target_lineage, offset_y)
              ELSE shift_to(d, parent, merge_from_x, start_x, target_y,
                            target_lineage, offset_y)
        d2 == scale_to(d1, parent, merge_from_x, start_x, widths[i])
        d3 == terminate_at(d2, parent, start_x)
    IN InstallOnParents(d3, parents, widths, centers, merge_from_x, start_x,
                        child, in_bundle, i + 1)

create_from_merge(d, vw, merge_from_x, start_x, start_y, start_w, parents, in_bundle, index) ==
  LET child == Len(d.ls) + 1
      d0 == IF in_bundle # NoRef
            THEN create_in_bundle(d, vw, start_x, start_w, in_bundle, index,
                                  start_x - merge_from_x)
            ELSE D(Append(d.ls, Lineage(start_x, start_y, start_w)), d.bs)
      layout_base_y == IF in_bundle # NoRef THEN Zero ELSE start_y
      parents_widths_at_from_x ==
        [i \in 1..Len(parents) |-> LineageWidthAt(d0.ls[parents[i]], merge_from_x)]
      layout == _calculate_merge_layout(parents_widths_at_from_x, layout_base_y, start_w)
      \* get_width_at sorted each parent's scale_events in place
      ls1 == SubSeq([k \in 1..Len(d0.ls) |->
                       IF \E i \in 1..Len(parents) : parents[i] = k
                       THEN WidthQueried(d0.ls[k], merge_from_x)
                       ELSE d0.ls[k]],
                    1, Len(d0.ls))
  IN InstallOnParents(D(ls1, d0.bs), parents, layout[1], layout[2],
                      merge_from_x, start_x, child, in_bundle, 1)

----------------------------------------------------------------------------
(* lineage.py: compile_segments *)

\* the lineage list after _calculate_layout ran for bundle b at x: every active
\* member's get_width_at was called
LayoutQueried(ls, b, x) ==
  LET active == get_memberships_at(b, x)
  IN SubSeq([k \in 1..Len(ls) |->
               IF \E i \in 1..Len(active) : active[i].lineage = k
               THEN WidthQueried(ls[k], x) ELSE ls[k]],
            1, Len(ls))

\* the bundle _resolve_target_y resolves the target through (NoRef: none)
RECURSIVE FirstJoinCovering(_, _)
FirstJoinCovering(events, at_x) ==
  IF events = <<>> THEN NoRef
  ELSE LET membership_event == Head(events) IN
    IF membership_event.type = JOIN /\ membership_event.from_x <= at_x
       /\ at_x <= membership_event.to_x
    THEN membership_event.assembly
    ELSE FirstJoinCovering(Tail(events), at_x)

TargetBundle(target, at_x) ==
  IF target._initial_bundle # NoRef THEN target._initial_bundle
  ELSE FirstJoinCovering(target.membership_events, at_x)

\* NoneR when the target is in no bundle
_resolve_target_y(ls, bs, vw, target_lineage, at_x, offset_y) ==
  LET target_bundle == TargetBundle(ls[target_lineage], at_x)
  IN IF target_bundle # NoRef
     THEN RAdd(CenterYOfMemberAt(bs[target_bundle], ls, vw, at_x + 1, target_lineage),
               offset_y)
     ELSE NoneR

\* the event segment_shifts.append receives: a new ShiftEvent when the target resolved
ResolvedShift(shift_event, resolved_y) ==
  IF ~IsNone(resolved_y)
  THEN ShiftEvent(shift_event.from_x, shift_event.to_x, resolved_y, NoRef, Zero)
  ELSE shift_event

\* a collection that takes every shift event starting at or after current_x
CollectShiftsMutStarting(ls, bs, vw, events, current_x, end_segment_x) ==
  SelectSeq(events, LAMBDA shift_event : shift_event.from_x >= current_x)

\* the shift events an independent span [current_x, end_segment_x] collects
RECURSIVE CollectShifts(_, _, _, _, _, _)
CollectShifts(ls, bs, vw, events, current_x, end_segment_x) ==
  IF events = <<>> THEN <<>>
  ELSE IF Head(events).from_x >= current_x /\ Head(events).to_x <= end_segment_x
  THEN <<ResolvedShift(Head(events),
                       IF Head(events).target_lineage # NoRef
                       THEN _resolve_target_y(ls, bs, vw, Head(events).target_lineage,
                                              Head(events).to_x, Head(events).offset_y)
                       ELSE NoneR)>>
       \o CollectShifts(ls, bs, vw, Tail(events), current_x, end_segment_x)
  ELSE CollectShifts(ls, bs, vw, Tail(events), current_x, end_segment_x)

\* the lineage list after the layout queries CollectShifts made
RECURSIVE CollectQueried(_, _, _, _, _, _)
CollectQueried(ls, bs, vw, events, current_x, end_segment_x) ==
  IF events = <<>> THEN ls
  ELSE
    LET shift_event == Head(events)
        tb == IF shift_event.target_lineage # NoRef
              THEN TargetBundle(ls[shift_event.target_lineage], shift_event.to_x)
              ELSE NoRef
        ls1 == IF shift_event.from_x >= current_x /\ shift_event.to_x <= end_segment_x
                  /\ tb # NoRef
               THEN LayoutQueried(ls, bs[tb], XOnPath(bs[tb], vw, shift_event.to_x + 1))
               ELSE ls
    IN CollectQueried(ls1, bs, vw, Tail(events), current_x, end_segment_x)

\* computed_segments.append, with the list saturating at MaxSegments
AppendSegment(segments, segment) ==
  IF Len(segments) < MaxSegments THEN Append(segments, segment) ELSE segments

\* the locals of a lineage taken to start inside a bundle
CompileLocalsMutDependent(l, vw) ==
  [current_x      |-> l.start_x,
   current_y      |-> l.start_y,
   is_dependent   |-> TRUE,
   current_bundle |-> 1,
   event_index    |-> 0,
   max_x          |-> IF l.end_x # NoX THEN l.end_x ELSE vw,
   broke          |-> FALSE,
   tick           |-> FALSE]

\* the locals of compile_segments when the loop is entered
CompileLocals(l, vw) ==
  [current_x      |-> l.start_x,
   current_y      |-> l.start_y,
   is_dependent   |-> l._initial_bundle # NoRef,
   current_bundle |-> l._initial_bundle,
   event_index    |-> 0,
   max_x          |-> IF l.end_x # NoX THEN l.end_x ELSE vw,
   broke          |-> FALSE,
   tick           |-> FALSE]

NoLocals ==
  [current_x |-> 0, current_y |-> Zero, is_dependent |-> FALSE, current_bundle |-> NoRef,
   event_index |-> 0, max_x |-> 0, broke |-> FALSE, tick |-> FALSE]

\* centre queried for the JOIN transition shift
JoinCenterXMutFromX(next_event) == next_event.from_x

JoinCenterX(next_event) == next_event.to_x

\* tick flips on every iteration (it is no local of the code)
Ticked(c) == [c EXCEPT !.tick = ~@]

\* INDEPENDENT, next event a JOIN: the segment runs to the end of the transition
JoinStep(lsq, me, c, start_w, next_event, segment_shifts, center_in_bundle) ==
  [ls |-> [lsq EXCEPT ![me].computed_segments =
             AppendSegment(@,
               IndependentSegment(c.current_x, c.current_y, start_w, next_event.to_x,
                 Append(segment_shifts,
                        ShiftEvent(next_event.from_x, next_event.to_x,
                                   center_in_bundle, NoRef, Zero)),
                 me))],
   c  |-> [Ticked(c) EXCEPT !.current_x = next_event.to_x,
                            !.current_bundle = next_event.assembly,
                            !.is_dependent = TRUE, !.event_index = @ + 1]]

\* INDEPENDENT, no next event or a LEAVE: the segment runs to end_segment_x
IndependentStep(lsq, me, c, start_w, has_next, end_segment_x, segment_shifts) ==
  [ls |-> [lsq EXCEPT ![me].computed_segments =
             AppendSegment(@,
               IndependentSegment(c.current_x, c.current_y, start_w, end_segment_x,
                                  segment_shifts, me))],
   c  |-> [Ticked(c) EXCEPT !.current_x = end_segment_x,
                            !.current_y = IF segment_shifts # <<>>
                                          THEN segment_shifts[Len(segment_shifts)].to_y
                                          ELSE @,
                            !.broke = ~has_next]]

\* DEPENDENT, next event a LEAVE: the dependent segment and the leave segment
LeaveStep(lsq, me, c, start_w, next_event, center_in_bundle, resolved_y) ==
  LET segment           == DependentSegment(c.current_bundle, me, c.current_x,
                                            next_event.from_x)
      resolved_target_y == IF ~IsNone(resolved_y) THEN resolved_y ELSE next_event.target_y
      transition_shift  == ShiftEvent(next_event.from_x, next_event.to_x,
                             IF ~IsNone(resolved_target_y) THEN resolved_target_y ELSE Zero,
                             NoRef, Zero)
      leave_seg         == IndependentSegment(next_event.from_x, center_in_bundle,
                                              start_w, next_event.to_x,
                                              <<transition_shift>>, me)
  IN [ls |-> [lsq EXCEPT ![me].computed_segments =
                AppendSegment(AppendSegment(@, segment), leave_seg)],
      c  |-> [Ticked(c) EXCEPT !.current_x = next_event.to_x,
                               !.current_y = next_event.target_y,
                               !.is_dependent = FALSE, !.current_bundle = NoRef,
                               !.event_index = @ + 1]]

\* a final dependent segment after which the loop goes on
FinalStepMutNoBreak(ls, me, c) ==
  [ls |-> [ls EXCEPT ![me].computed_segments =
             AppendSegment(@, DependentSegment(c.current_bundle, me, c.current_x,
                                               c.max_x))],
   c  |-> Ticked(c)]

\* DEPENDENT, no next event or a JOIN: the final dependent segment, then break
FinalStep(ls, me, c) ==
  [ls |-> [ls EXCEPT ![me].computed_segments =
             AppendSegment(@, DependentSegment(c.current_bundle, me, c.current_x,
                                               c.max_x))],
   c  |-> [Ticked(c) EXCEPT !.broke = TRUE]]

\* the lineage list after the layout queries of a LEAVE: the centre in the current
\* bundle, then the target's bundle when the LEAVE has a target lineage
LeaveQueried(ls, bs, vw, current_bundle, next_event, tb) ==
  IF tb # NoRef
  THEN LayoutQueried(
         LayoutQueried(ls, current_bundle,
                       XOnPath(current_bundle, vw, next_event.from_x + 1)),
         bs[tb], XOnPath(bs[tb], vw, next_event.to_x + 1))
  ELSE LayoutQueried(ls, current_bundle,
                     XOnPath(current_bundle, vw, next_event.from_x + 1))

\* the INDEPENDENT arm once the span's shift events are collected
IndependentArm(ls, lsq, bs, vw, me, c, start_w, has_next, next_event, end_segment_x, segment_shifts) ==
  IF has_next /\ next_event.type = JOIN
  THEN JoinStep(LayoutQueried(lsq, bs[next_event.assembly],
                              XOnPath(bs[next_event.assembly], vw,
                                      JoinCenterX(next_event))),
                me, c, start_w, next_event, segment_shifts,
                CenterYOfMemberAt(bs[next_event.assembly], ls, vw,
                                  JoinCenterX(next_event), me))
  ELSE IndependentStep(lsq, me, c, start_w, has_next, end_segment_x, segment_shifts)

\* the DEPENDENT arm
DependentArm(ls, bs, vw, me, c, start_w, has_next, next_event) ==
  IF has_next /\ next_event.type = LEAVE
  THEN LeaveStep(LeaveQueried(ls, bs, vw, bs[c.current_bundle], next_event,
                              IF next_event.target_lineage # NoRef
                              THEN TargetBundle(ls[next_event.target_lineage],
                                                next_event.to_x)
                              ELSE NoRef),
                 me, c, start_w, next_event,
                 CenterYOfMemberAt(bs[c.current_bundle], ls, vw,
                                   next_event.from_x + 1, me),
                 IF next_event.target_lineage # NoRef
                 THEN _resolve_target_y(ls, bs, vw, next_event.target_lineage,
                                        next_event.to_x, next_event.offset_y)
                 ELSE NoneR)
  ELSE FinalStep(ls, me, c)

\* the iteration once the next event and the end of the segment are known
LoopArms(ls, bs, vw, me, c, self, has_next, next_event, end_segment_x) ==
  IF ~c.is_dependent
  THEN IndependentArm(ls,
         CollectQueried(ls, bs, vw, self.shift_events, c.current_x, end_segment_x),
         bs, vw, me, c, self.start_w, has_next, next_event, end_segment_x,
         CollectShifts(ls, bs, vw, self.shift_events, c.current_x, end_segment_x))
  ELSE DependentArm(ls, bs, vw, me, c, self.start_w, has_next, next_event)

\* the next membership event, when there is one
NextEvent(self, c) == self.membership_events[c.event_index + 1]

\* one iteration of the while loop of compile_segments for lineage me;
\* returns [ls, c]: the lineage list and the locals after the iteration
LoopBody(ls, bs, vw, me, c) ==
  LoopArms(ls, bs, vw, me, c, ls[me],
           c.event_index < Len(ls[me].membership_events),
           NextEvent(ls[me], c),
           IF c.event_index < Len(ls[me].membership_events)
           THEN NextEvent(ls[me], c).from_x ELSE c.max_x)

----------------------------------------------------------------------------
(* The client script and Diagram.generate *)

\* inputs of the builder calls: the transitions [from_x, to_x] the script uses
JoinSpans   == {<<1, 2>>, <<3, 5>>}
LeaveSpans  == {<<1, 2>>, <<3, 5>>}
MergeSpans  == {<<4, 5>>}
LeaveYs     == {Rat(3)}
MergeWs     == {Rat(2)}
TermXs      == {4, 5}
ShiftSpans  == {<<1, 2>>}
ShiftYs     == {Rat(7)}
ScaleSpans  == {<<2, 4>>}
ScaleWs     == {Rat(3)}
\* resolutions whose samples of both bundle baselines fall on integer X
Resolutions == {r \in 2..(MaxX + 1) : MaxX % (r - 1) = 0 /\ (MaxX - 3) % (r - 1) = 0}

InitBundles == <<Bundle(0, Rat(10), Rat(1)), Bundle(3, Rat(20), Rat(2))>>

\* the diagrams the script has built when the model starts: two bundles, then
\* lineage 1 (plain or created in bundle 1) and lineage 2 (plain or created in bundle 1)
InitDiagrams(vw) ==
  LET d0  == D(<<>>, InitBundles)
      L1s == {D(<<Lineage(0, Rat(5), Rat(2))>>, InitBundles)}
             \cup {create_in_bundle(d0, vw, 1, Rat(2), 1, -1, f) : f \in {0, 1}}
  IN UNION {{D(Append(d1.ls, Lineage(0, Rat(2), Rat(1))), d1.bs),
             create_in_bundle(d1, vw, 0, Rat(1), 1, -1, 0)} : d1 \in L1s}

Init ==
  /\ view_width = MaxX
  /\ resolution \in Resolutions
  /\ \E d \in InitDiagrams(MaxX) : lineages = d.ls /\ bundles = d.bs
  /\ pc = "build"
  /\ bidx = 0
  /\ lidx = 0
  /\ cs = NoLocals
  /\ trace = <<>>
  /\ ncalls = 0
  /\ fn = [op |-> "none"]

Built(d) ==
  /\ lineages' = d.ls
  /\ bundles' = d.bs
  /\ ncalls' = ncalls + 1
  /\ UNCHANGED <<view_width, resolution, pc, bidx, lidx, cs, trace, fn>>

CanBuild == pc = "build" /\ ncalls < MaxCalls

Here == D(lineages, bundles)

\* the script calls lineage 1's builder methods; lineage 2 takes part in merges
Join ==
  /\ CanBuild
  /\ \E span \in JoinSpans, b \in {1} :
       Built(join(Here, view_width, 1, span[1], span[2], b, -1))

Leave ==
  /\ CanBuild
  /\ \E span \in LeaveSpans, b \in {1}, to_y \in LeaveYs :
       Built(leave(Here, 1, span[1], span[2], b, to_y, NoRef, Zero))

TerminateAt ==
  /\ CanBuild
  /\ \E x \in TermXs : Built(terminate_at(Here, 1, x))

ShiftTo ==
  /\ CanBuild
  /\ \E span \in ShiftSpans, to_y \in ShiftYs :
       Built(shift_to(Here, 1, span[1], span[2], to_y, NoRef, Zero))

ScaleTo ==
  /\ CanBuild
  /\ \E span \in ScaleSpans, to_w \in ScaleWs :
       Built(scale_to(Here, 1, span[1], span[2], to_w))

\* one merge per diagram
CreateFromMerge ==
  /\ CanBuild
  /\ Len(lineages) = 2
  /\ \E parents \in {<<1>>, <<1, 2>>}, span \in MergeSpans, start_w \in MergeWs,
        in_bundle \in {NoRef, 1} :
       Built(create_from_merge(Here, view_width, span[1], span[2],
                               Rat(6), start_w, parents, in_bundle, -1))

\* Diagram.generate is called
Generate ==
  /\ pc = "build"
  /\ pc' = "solve"
  /\ bidx' = 1
  /\ UNCHANGED <<view_width, resolution, lineages, bundles, lidx, cs, trace, ncalls, fn>>

\* the lineage list after the samples i..res of bundle b's solve pass: get_width_at
\* ran for every member active at a sample
RECURSIVE SolveQueried(_, _, _, _, _)
SolveQueried(ls, b, vw, res, i) ==
  IF i > res \/ ls = <<>> THEN ls
  ELSE SolveQueried(LayoutQueried(ls, b, SampleX(b, vw, res, i)), b, vw, res, i + 1)

\* for bundle in self.bundles: bundle.solve_geometry()
SolveGeometry ==
  /\ pc = "solve"
  /\ bidx <= Len(bundles)
  /\ bundles' = [bundles EXCEPT ![bidx] = solve_geometry(@, lineages, view_width, resolution)]
  /\ lineages' = SolveQueried(lineages, bundles[bidx], view_width, resolution, 1)
  /\ trace' = Append(trace, <<"solve", bidx>>)
  /\ bidx' = bidx + 1
  /\ UNCHANGED <<view_width, resolution, pc, lidx, cs, ncalls, fn>>

SolveDoneMutEarly ==
  /\ pc = "solve"
  /\ bidx > 1
  /\ pc' = IF Len(lineages) > 0 THEN "compile" ELSE "done"
  /\ lidx' = 1
  /\ UNCHANGED <<view_width, resolution, lineages, bundles, bidx, cs, trace, ncalls, fn>>

\* the bundle loop is over, the lineage loop begins
SolveDone ==
  /\ pc = "solve"
  /\ bidx > Len(bundles)
  /\ pc' = IF Len(lineages) > 0 THEN "compile" ELSE "done"
  /\ lidx' = 1
  /\ UNCHANGED <<view_width, resolution, lineages, bundles, bidx, cs, trace, ncalls, fn>>

\* lineage.compile_segments() up to the while loop
CompileBegin ==
  /\ pc = "compile"
  /\ lineages' = [lineages EXCEPT ![lidx].computed_segments = <<>>,
                                  ![lidx].membership_events = SortByFromX(@)]
  /\ cs' = CompileLocals(lineages[lidx], view_width)
  /\ trace' = Append(trace, <<"compile", lidx>>)
  /\ pc' = "loop"
  /\ UNCHANGED <<view_width, resolution, bundles, bidx, lidx, ncalls, fn>>

\* the iteration's writes: the lineage list and the locals
Iterated(r) == lineages' = r.ls /\ cs' = r.c

\* one iteration of the while loop
CompileStep ==
  /\ pc = "loop"
  /\ ~cs.broke
  /\ cs.current_x < cs.max_x
  /\ Iterated(LoopBody(lineages, bundles, view_width, lidx, cs))
  /\ UNCHANGED <<view_width, resolution, bundles, pc, bidx, lidx, trace, ncalls, fn>>

\* the while loop is left and compile_segments returns
CompileReturn ==
  /\ pc = "loop"
  /\ cs.broke \/ ~(cs.current_x < cs.max_x)
  /\ pc' = "draw"
  /\ cs' = NoLocals
  /\ UNCHANGED <<view_width, resolution, lineages, bundles, bidx, lidx, trace, ncalls, fn>>

\* svg_lines.append(lineage.draw()), then the next lineage
Draw ==
  /\ pc = "draw"
  /\ lidx' = lidx + 1
  /\ pc' = IF lidx < Len(lineages) THEN "compile" ELSE "done"
  /\ UNCHANGED <<view_width, resolution, lineages, bundles, bidx, cs, trace, ncalls, fn>>

Next ==
  \/ Join
  \/ Leave
  \/ TerminateAt
  \/ ShiftTo
  \/ ScaleTo
  \/ CreateFromMerge
  \/ Generate
  \/ SolveGeometry
  \/ SolveDone
  \/ CompileBegin
  \/ CompileStep
  \/ CompileReturn
  \/ Draw

Spec == Init /\ [][Next]_vars

TypeOK == pc \in {"build", "solve", "compile", "loop", "draw", "done"}

\* the steps of one generate call
GenNext ==
  Generate \/ SolveGeometry \/ SolveDone \/ CompileBegin \/ CompileStep
  \/ CompileReturn \/ Draw

\* the join / leave round trip: lineage 1 starts independent, joins bundle 1 with a
\* JOIN starting at X = 300 and leaves it with a LEAVE starting at X = 1000 (X in
\* units of 1e-3); the transitions' ends, the view width, the resolution and the
\* presence of another member of the bundle vary
RoundTripViews == {1000002, 1600000}

RoundTripDiagrams(vw) ==
  LET bs     == <<Bundle(0, Rat(10), Rat(1))>>
      alone  == D(<<Lineage(0, Rat(5), Rat(2))>>, bs)
      shared == create_in_bundle(alone, vw, 0, Rat(1), 1, -1, 0)
  IN {leave(join(d, vw, 1, 300000, join_to_x, 1, -1),
            1, 1000000, leave_to_x, 1, Rat(3), NoRef, Zero) :
        d \in {alone, shared}, join_to_x \in {300002, 300004},
        leave_to_x \in {1000002, 1000004}}

RoundTripInit ==
  /\ view_width \in RoundTripViews
  /\ resolution \in {2, 3}
  /\ \E d \in RoundTripDiagrams(view_width) : lineages = d.ls /\ bundles = d.bs
  /\ pc = "build"
  /\ bidx = 0
  /\ lidx = 0
  /\ cs = NoLocals
  /\ trace = <<>>
  /\ ncalls = 0
  /\ fn = [op |-> "none"]

RoundTripSpec == RoundTripInit /\ [][GenNext]_vars

\* resolution of a dynamic target: lineage 1 is the target (plain with a JOIN into
\* bundle 1 long before or around the query X, or created in bundle 1 and left or
\* not); lineage 2 carries the transition over [TargetFromX, TargetToX] that names
\* lineage 1 as its target: a shift_to of a plain lineage or a leave of a lineage
\* created in bundle 2
TargetFromX   == 4
TargetToX     == 5
TargetStaticY == Rat(7)
TargetOffsets == {Zero, One}

TargetDiagrams(vw) ==
  LET d0      == D(<<>>, InitBundles)
      plain   == D(<<Lineage(0, Rat(5), Rat(2))>>, InitBundles)
      inside  == create_in_bundle(d0, vw, 0, Rat(2), 1, -1, 0)
      targets == {join(plain, vw, 1, 1, 2, 1, -1),
                  join(plain, vw, 1, 3, 5, 1, -1),
                  inside,
                  leave(inside, 1, 1, 2, 1, Rat(3), NoRef, Zero)}
  IN UNION {{shift_to(D(Append(d.ls, Lineage(0, Rat(2), Rat(1))), d.bs),
                      2, TargetFromX, TargetToX, TargetStaticY, 1, offset_y),
             leave(create_in_bundle(d, vw, 3, Rat(1), 2, -1, 0),
                   2, TargetFromX, TargetToX, 2, TargetStaticY, 1, offset_y)} :
              d \in targets, offset_y \in TargetOffsets}

TargetInit ==
  /\ view_width = MaxX
  /\ resolution \in Resolutions
  /\ \E d \in TargetDiagrams(MaxX) : lineages = d.ls /\ bundles = d.bs
  /\ pc = "build"
  /\ bidx = 0
  /\ lidx = 0
  /\ cs = NoLocals
  /\ trace = <<>>
  /\ ncalls = 0
  /\ fn = [op |-> "none"]

TargetSpec == TargetInit /\ [][GenNext]_vars

\* the bundle after get_baseline_path ran on it: the call sorts shift_events in place
BaselineQueried(b) == [b EXCEPT !.shift_events = SortByFromX(@)]

\* get_center_point_of_member_at as a complex number <<real, imag>>
get_center_point_of_member_at(b, ls, vw, x, lineage) ==
  <<XOnPath(b, vw, x), CenterYOfMemberAt(b, ls, vw, x, lineage)>>

\* the two lookups of a bundle, called before and after the solve phase on diagrams
\* in which lineage 1 is no member of bundle 1, joins it late, or has left it, and
\* lineages 2 and 3 are members throughout; bundle 2 has no member, or lineage 1,
\* which joined it over [1, 2], before the baseline of bundle 2 begins at X = 3
LookupXs == {0, 2, 3, MaxX}

LookupDiagrams(vw) ==
  LET d0     == D(<<>>, InitBundles)
      plain  == D(<<Lineage(0, Rat(5), Rat(2))>>, InitBundles)
      inside == create_in_bundle(d0, vw, 1, Rat(2), 1, -1, 1)
      firsts == {plain,
                 join(plain, vw, 1, 3, 5, 1, -1),
                 join(plain, vw, 1, 1, 2, 2, -1),
                 leave(inside, 1, 1, 2, 1, Rat(3), NoRef, Zero)}
  IN {create_in_bundle(
        scale_to(scale_to(create_in_bundle(d, vw, 0, Rat(1), 1, -1, 0), 2, 2, 4, Rat(3)),
                 2, 1, 2, Rat(2)),
        vw, 0, Rat(3), 1, -1, 0) : d \in firsts}

LookupInit ==
  /\ view_width = MaxX
  /\ resolution \in Resolutions
  /\ \E d \in LookupDiagrams(MaxX) : lineages = d.ls /\ bundles = d.bs
  /\ pc = "build"
  /\ bidx = 0
  /\ lidx = 0
  /\ cs = NoLocals
  /\ trace = <<>>
  /\ ncalls = 0
  /\ fn = [op |-> "none"]

\* bundle.get_center_point_of_member_at(x, lineage): fn keeps the bundles as they
\* were at the call and at the return, and the result
GetCenterPointOfMemberAt ==
  /\ pc \in {"build", "compile"}
  /\ \E b \in 1..Len(bundles), x \in LookupXs, lineage \in 1..Len(lineages) :
       /\ bundles' = [bundles EXCEPT ![b] = BaselineQueried(@)]
       /\ fn' = [op |-> "get_center_point_of_member_at", bundle |-> b, x |-> x,
                 lineage |-> lineage, before |-> bundles, after |-> bundles',
                 result |-> get_center_point_of_member_at(bundles[b], lineages,
                                                          view_width, x, lineage)]
       /\ lineages' = LayoutQueried(lineages, bundles[b], XOnPath(bundles[b], view_width, x))
  /\ UNCHANGED <<view_width, resolution, pc, bidx, lidx, cs, trace, ncalls>>

\* the cached upper points of `lineage` inside [start_x, end_x]
FilteredUpper(b, lineage, start_x, end_x) ==
  SelectSeq(b.compiled_member_points[lineage][1],
            LAMBDA p : start_x <= p[1] /\ p[1] <= end_x)

\* get_compiled_points_for interpolates the start: it calls _get_member_geometry_at
InterpolatesStart(b, lineage, start_x, end_x) ==
  \/ FilteredUpper(b, lineage, start_x, end_x) = <<>>
  \/ RLt(RAdd(Rat(start_x), Tol5), Rat(FilteredUpper(b, lineage, start_x, end_x)[1][1]))

\* get_compiled_points_for interpolates the end
InterpolatesEnd(b, ls, vw, lineage, start_x, end_x) ==
  Len(get_compiled_points_for(b, ls, vw, lineage, start_x, end_x)[1])
    > Len(FilteredUpper(b, lineage, start_x, end_x))
      + (IF InterpolatesStart(b, lineage, start_x, end_x) THEN 1 ELSE 0)

\* the lineage list after the width queries of the interpolations
PointsQueried(ls, b, vw, at_start, start_x, at_end, end_x) ==
  IF at_end
  THEN LayoutQueried(IF at_start THEN LayoutQueried(ls, b, XOnPath(b, vw, start_x)) ELSE ls,
                     b, XOnPath(b, vw, end_x))
  ELSE IF at_start THEN LayoutQueried(ls, b, XOnPath(b, vw, start_x)) ELSE ls

\* a lookup that stores the sequences it returns in the point cache
PointsLookedUpMutCaches(b, lineage, start_x, end_x, at_start, at_end) ==
  /\ bundles' = [bundles EXCEPT ![b].compiled_member_points[lineage] =
                   get_compiled_points_for(bundles[b], lineages, view_width, lineage,
                                           start_x, end_x)]
  /\ lineages' = PointsQueried(lineages, bundles[b], view_width, at_start, start_x,
                               at_end, end_x)

\* the writes of get_compiled_points_for when the lineage is in the point cache
PointsLookedUp(b, lineage, start_x, end_x, at_start, at_end) ==
  /\ bundles' = IF at_start \/ at_end THEN [bundles EXCEPT ![b] = BaselineQueried(@)]
                ELSE bundles
  /\ lineages' = PointsQueried(lineages, bundles[b], view_width, at_start, start_x,
                               at_end, end_x)

\* bundle.get_compiled_points_for(lineage, start_x, end_x)
GetCompiledPointsFor ==
  /\ pc \in {"build", "compile"}
  /\ \E b \in 1..Len(bundles), start_x \in LookupXs, end_x \in LookupXs,
        lineage \in 1..Len(lineages) :
       /\ start_x <= end_x
       /\ IF lineage \in DOMAIN bundles[b].compiled_member_points
          THEN PointsLookedUp(b, lineage, start_x, end_x,
                 InterpolatesStart(bundles[b], lineage, start_x, end_x),
                 InterpolatesEnd(bundles[b], lineages, view_width, lineage, start_x, end_x))
          ELSE bundles' = bundles /\ lineages' = lineages
       /\ fn' = [op |-> "get_compiled_points_for", bundle |-> b, x |-> start_x,
                 end_x |-> end_x, lineage |-> lineage, before |-> bundles, after |-> bundles',
                 result |-> get_compiled_points_for(bundles[b], lineages, view_width,
                                                    lineage, start_x, end_x)]
  /\ UNCHANGED <<view_width, resolution, pc, bidx, lidx, cs, trace, ncalls>>

LookupNext ==
  Generate \/ SolveGeometry \/ SolveDone \/ GetCenterPointOfMemberAt
  \/ GetCompiledPointsFor

LookupSpec == LookupInit /\ [][LookupNext]_vars

\* the variables a specification of one function leaves alone
Idle ==
  /\ view_width = MaxX
  /\ resolution = 2
  /\ bundles = <<>>
  /\ pc = "build"
  /\ bidx = 0
  /\ lidx = 0
  /\ cs = NoLocals
  /\ trace = <<>>
  /\ ncalls = 0

\* ScalablePath.get_width_at on one lineage of start_w = 10: the script adds scale
\* events in any order (three that follow each other and one that overlaps them),
\* may terminate the lineage, and queries the width (X in units of 1e-3)
WidthEvents ==
  {<<100000, 200000, Rat(20)>>, <<200000, 300000, Rat(30)>>, <<300000, 400000, Rat(5)>>,
   <<150000, 250000, Rat(8)>>}

WidthXs ==
  {50000, 100000, 125000, 150000, 200000, 250000, 300000, 350000, 400000, 450000}

WidthEnds == {350000}

WidthInit ==
  /\ Idle
  /\ lineages = <<Lineage(0, Rat(5), Rat(10))>>
  /\ fn = [op |-> "none"]

WidthScaleTo ==
  /\ Len(lineages[1].scale_events) < MaxEvents
  /\ \E e \in WidthEvents :
       /\ \A i \in 1..Len(lineages[1].scale_events) :
            lineages[1].scale_events[i] # ScaleEvent(e[1], e[2], e[3])
       /\ lineages' = scale_to(Here, 1, e[1], e[2], e[3]).ls
  /\ UNCHANGED <<view_width, resolution, bundles, pc, bidx, lidx, cs, trace, ncalls, fn>>

WidthTerminateAt ==
  /\ lineages[1].end_x = NoX
  /\ \E x \in WidthEnds : lineages' = terminate_at(Here, 1, x).ls
  /\ UNCHANGED <<view_width, resolution, bundles, pc, bidx, lidx, cs, trace, ncalls, fn>>

\* lineage.get_width_at(x): fn keeps the lineage as it was at the call and the result
WidthGetWidthAt ==
  /\ \E x \in WidthXs :
       /\ fn' = [op |-> "get_width_at", self |-> lineages[1], x |-> x,
                 result |-> LineageWidthAt(lineages[1], x)]
       /\ lineages' = [lineages EXCEPT ![1] = WidthQueried(@, x)]
  /\ UNCHANGED <<view_width, resolution, bundles, pc, bidx, lidx, cs, trace, ncalls>>

WidthNext == WidthScaleTo \/ WidthTerminateAt \/ WidthGetWidthAt

WidthSpec == WidthInit /\ [][WidthNext]_vars

\* Lineage._calculate_merge_layout on the parents' widths at merge_from_x, the child's
\* centre and the child's width
MergeWidths == {Zero, One, Rat(2), Rat(3), Rat(5)}

MergeChildWidths == {Zero, Rat(2), Rat(4), Rat(10)}

MergeChildYs == {Zero, Rat(6)}

RECURSIVE WidthLists(_)
WidthLists(n) ==
  IF n = 0 THEN {<<>>}
  ELSE WidthLists(n - 1)
       \cup {Append(ws, w) : ws \in {l \in WidthLists(n - 1) : Len(l) = n - 1},
                             w \in MergeWidths}

MergeInit ==
  /\ Idle
  /\ lineages = <<>>
  /\ \E ws \in WidthLists(MaxParents) \ {<<>>}, start_y \in MergeChildYs,
        start_w \in MergeChildWidths :
       fn = [op |-> "call", parents_widths |-> ws, start_y |-> start_y,
             start_w |-> start_w, result |-> <<>>]

CalculateMergeLayout ==
  /\ fn.op = "call"
  /\ fn' = [fn EXCEPT !.op = "_calculate_merge_layout",
                      !.result = _calculate_merge_layout(fn.parents_widths, fn.start_y,
                                                         fn.start_w)]
  /\ UNCHANGED <<view_width, resolution, lineages, bundles, pc, bidx, lidx, cs, trace,
                 ncalls>>

MergeNext == CalculateMergeLayout

MergeSpec == MergeInit /\ [][MergeNext]_vars

\* ShiftablePath.get_baseline_path on one path starting at (0, 5): its shift events
\* in any order (following each other, overlapping, of zero length, without a
\* to_y, reaching past the end) and its end_x, which may be the start or undefined
BaselineEvents ==
  {ShiftEvent(1, 2, Rat(7), NoRef, Zero), ShiftEvent(3, 5, Rat(2), NoRef, One),
   ShiftEvent(2, 4, NoneR, NoRef, Rat(3)), ShiftEvent(0, 0, Rat(5), NoRef, Zero),
   ShiftEvent(5, 7, Rat(9), NoRef, Zero)}

BaselineEnds == {0, 5, MaxX, NoX}

RECURSIVE ShiftLists(_)
ShiftLists(n) ==
  IF n = 0 THEN {<<>>}
  ELSE ShiftLists(n - 1)
       \cup {Append(es, e) : es \in {l \in ShiftLists(n - 1) : Len(l) = n - 1},
                             e \in BaselineEvents}

BaselineInit ==
  /\ Idle
  /\ lineages = <<>>
  /\ \E shift_events \in ShiftLists(MaxEvents), end_x \in BaselineEnds :
       fn = [op |-> "call", start_x |-> 0, start_y |-> Rat(5),
             shift_events |-> shift_events, end_x |-> end_x, result |-> <<>>]

\* path.get_baseline_path(): fn keeps the path object as it was at the call and the
\* returned pieces
GetBaselinePath ==
  /\ fn.op = "call"
  /\ fn' = [fn EXCEPT !.op = "get_baseline_path",
                      !.result = get_baseline_path(fn.start_x, fn.start_y,
                                                   fn.shift_events, fn.end_x)]
  /\ UNCHANGED <<view_width, resolution, lineages, bundles, pc, bidx, lidx, cs, trace,
                 ncalls>>

BaselineNext == GetBaselinePath

BaselineSpec == BaselineInit /\ [][BaselineNext]_vars

\* Bundle._get_factor and the effective width of _calculate_layout for one membership
\* as join / create_in_bundle and leave can leave it (the fade out starts at or after
\* start_x; it may start before the fade in is over), at every X around it
FactorStarts   == {0, 1}
FactorFades    == {0, 2, 4}
FactorEnds     == {6, 8}
FactorXs       == 0..9
FactorRawWidth == Rat(3)

FactorInit ==
  /\ Idle
  /\ lineages = <<Lineage(0, Rat(5), FactorRawWidth)>>
  /\ \E start_x \in FactorStarts, end_x \in FactorEnds, fade_in_duration \in FactorFades,
        fade_out_duration \in FactorFades, x \in FactorXs :
       /\ start_x <= end_x - fade_out_duration
       /\ fn = [op |-> "call", x |-> x,
                membership |-> [BundleMembership(1, start_x, end_x, fade_in_duration, 0)
                                  EXCEPT !.fade_out_duration = fade_out_duration],
                factor |-> Zero, effective_width |-> Zero]

\* bundle._calculate_layout([membership], x): fn keeps the factor and the effective
\* width it computed
GetFactor ==
  /\ fn.op = "call"
  /\ fn' = [fn EXCEPT !.op = "_get_factor",
                      !.factor = _get_factor(fn.membership, fn.x),
                      !.effective_width =
                         _calculate_layout(Bundle(0, Rat(10), One), lineages,
                                           <<fn.membership>>, fn.x)[1][1]]
  /\ UNCHANGED <<view_width, resolution, lineages, bundles, pc, bidx, lidx, cs, trace,
                 ncalls>>

FactorNext == GetFactor

FactorSpec == FactorInit /\ [][FactorNext]_vars

\* utils.smootherstep called on two ratios r <= s, taken from the fractions n/d below,
\* at and around [0, 1]
SmoothDens == {4, 5, 6}

SmoothRatios == {Norm(n, d) : n \in -6..12, d \in SmoothDens}

SmoothInit ==
  /\ Idle
  /\ lineages = <<>>
  /\ \E r \in SmoothRatios, s \in SmoothRatios :
       /\ RLe(r, s)
       /\ fn = [op |-> "call", r |-> r, s |-> s, at_r |-> NoneR, at_s |-> NoneR]

\* smootherstep(r)
SmootherstepFirst ==
  /\ fn.op = "call"
  /\ fn' = [fn EXCEPT !.op = "first", !.at_r = smootherstep(fn.r)]
  /\ UNCHANGED <<view_width, resolution, lineages, bundles, pc, bidx, lidx, cs, trace,
                 ncalls>>

\* smootherstep(s)
SmootherstepSecond ==
  /\ fn.op = "first"
  /\ fn' = [fn EXCEPT !.op = "smootherstep", !.at_s = smootherstep(fn.s)]
  /\ UNCHANGED <<view_width, resolution, lineages, bundles, pc, bidx, lidx, cs, trace,
                 ncalls>>

SmoothNext == SmootherstepFirst \/ SmootherstepSecond

SmoothSpec == SmoothInit /\ [][SmoothNext]_vars

----------------------------------------------------------------------------
(* Lineage.draw over the compiled segments, on the diagram of one plain lineage *)

\* segments.py, Segment.__init__ and IndependentSegment.__init__: the attributes the
\* constructors set on the object (the path classes only annotate theirs)
IndependentSegmentAttributes ==
  {"diagram", "_upper_points", "_lower_points", "start_x", "start_y", "start_w", "end_x",
   "_shift_events", "_scale_events"}

\* the attributes of self that get_baseline_path and get_width_at read
ShiftablePathReads == {"start_x", "start_y", "shift_events", "end_x"}
ScalablePathReads  == {"end_x", "start_w", "scale_events"}

\* reading an attribute the object does not carry raises AttributeError
Raised(error)  == [raised |-> error, upper |-> <<>>, lower |-> <<>>]
Returned(u, l) == [raised |-> "", upper |-> u, lower |-> l]

\* point + normal * offset where the tangent is horizontal (the normal is 1j)
Offset(point, offset) == <<point[1], RAdd(point[2], offset)>>

\* the sampling loop of IndependentSegment.compile at t = 0 and t = 1 of every piece,
\* the two samples np.linspace(0, 1, num_samples) yields for every num_samples; a piece
\* starts and ends with a horizontal tangent.  The width is taken at the X of the sample:
\* the 1e-5 nudge is a hundredth of the X unit and never crosses end_x
RECURSIVE SamplePieces(_, _, _, _, _)
SamplePieces(baseline_path, start_w, scale_events, end_x, acc) ==
  IF baseline_path = <<>> THEN acc
  ELSE
    LET segment == Head(baseline_path)
        start   == segment.p0
        end     == segment.p1
    IN IF start[1] = end[1]
       THEN SamplePieces(Tail(baseline_path), start_w, scale_events, end_x, acc)
       ELSE SamplePieces(Tail(baseline_path), start_w, scale_events, end_x,
              Returned(
                acc.upper \o
                  <<Offset(start, RMul(get_width_at(start_w, scale_events, end_x, start[1]), Half)),
                    Offset(end, RMul(get_width_at(start_w, scale_events, end_x, end[1]), Half))>>,
                acc.lower \o
                  <<Offset(start, RNeg(RMul(get_width_at(start_w, scale_events, end_x, start[1]), Half))),
                    Offset(end, RNeg(RMul(get_width_at(start_w, scale_events, end_x, end[1]), Half)))>>))

\* IndependentSegment.compile: the baseline is read first, the widths inside the loop
IndependentCompile(ls, segment) ==
  IF ~(ShiftablePathReads \subseteq IndependentSegmentAttributes) THEN Raised("AttributeError")
  ELSE IF get_baseline_path(segment.start_x, segment.start_y, segment.shift_events,
                            segment.end_x) = <<>>
  THEN Returned(<<>>, <<>>)
  ELSE IF ~(ScalablePathReads \subseteq IndependentSegmentAttributes) THEN Raised("AttributeError")
  ELSE SamplePieces(get_baseline_path(segment.start_x, segment.start_y, segment.shift_events,
                                      segment.end_x),
                    segment.start_w, ls[segment.lineage].scale_events, segment.end_x,
                    Returned(<<>>, <<>>))

\* DependentSegment.compile
DependentCompile(ls, bs, vw, segment) ==
  Returned(get_compiled_points_for(bs[segment.bundle], ls, vw, segment.lineage,
                                   segment.start_x, segment.end_x)[1],
           get_compiled_points_for(bs[segment.bundle], ls, vw, segment.lineage,
                                   segment.start_x, segment.end_x)[2])

compile(ls, bs, vw, segment) ==
  IF segment.kind = INDEPENDENT THEN IndependentCompile(ls, segment)
  ELSE DependentCompile(ls, bs, vw, segment)

\* the gathering loop of Lineage.draw: an exception of a compile leaves the loop
RECURSIVE Gather(_, _, _, _, _)
Gather(ls, bs, vw, segments, acc) ==
  IF segments = <<>> THEN acc
  ELSE IF compile(ls, bs, vw, Head(segments)).raised # ""
  THEN compile(ls, bs, vw, Head(segments))
  ELSE Gather(ls, bs, vw, Tail(segments),
              Returned(acc.upper \o compile(ls, bs, vw, Head(segments)).upper,
                       acc.lower \o compile(ls, bs, vw, Head(segments)).lower))

\* Lineage.draw, up to the boundary points it draws
draw(ls, bs, vw, l) == Gather(ls, bs, vw, ls[l].computed_segments, Returned(<<>>, <<>>))

\* X in units of 1e-3: the shift and the scale run over [100, 200]
ScenarioFromX      == 100000
ScenarioToX        == 200000
ScenarioViews      == {ScenarioToX + 10000 * k : k \in 0..10}

\* the resolutions of the runs: the samples at t = 0 and t = 1 of a piece are the same
\* for every resolution
ScenarioResolutions == {11, 21, 41}

\* Lineage(0, 50, 10).shift_to(100, 200, 150).scale_to(100, 200, 20), next to one or
\* two bundles without members
ScenarioDiagrams ==
  {scale_to(shift_to(D(<<Lineage(0, Rat(50), Rat(10))>>, bs),
                     1, ScenarioFromX, ScenarioToX, Rat(150), NoRef, Zero),
            1, ScenarioFromX, ScenarioToX, Rat(20)) :
     bs \in {<<InitBundles[1]>>, InitBundles}}

ScenarioInit ==
  /\ view_width \in ScenarioViews
  /\ resolution \in ScenarioResolutions
  /\ \E d \in ScenarioDiagrams : lineages = d.ls /\ bundles = d.bs
  /\ pc = "build"
  /\ bidx = 0
  /\ lidx = 0
  /\ cs = NoLocals
  /\ trace = <<>>
  /\ ncalls = 0
  /\ fn = [op |-> "none"]

ScenarioSpec == ScenarioInit /\ [][GenNext]_vars

----------------------------------------------------------------------------
(* Two lineages compiled and drawn by two threads after the bundles are solved *)

\* a memory access to a list of a lineage or of a bundle
Read(field, owner)  == [loc |-> <<field, owner>>, write |-> FALSE]
Write(field, owner) == [loc |-> <<field, owner>>, write |-> TRUE]

\* the members _calculate_layout asks for their width at x
ActiveLineages(b, x) ==
  {get_memberships_at(b, x)[i].lineage : i \in 1..Len(get_memberships_at(b, x))}

\* _get_member_geometry_at of bundle k at x: get_baseline_path sorts the bundle's
\* shift events in place, get_memberships_at walks the memberships, get_width_at
\* sorts the scale events of every active member in place
GeometryAccesses(bs, vw, k, x) ==
  {Write("bundle.shift_events", k), Read("bundle.memberships", k)}
  \cup {Write("lineage.scale_events", m) : m \in ActiveLineages(bs[k], XOnPath(bs[k], vw, x))}

\* _resolve_target_y: the target's membership events are walked when it has no
\* initial bundle, then the centre is asked of the bundle found
ResolveAccesses(ls, bs, vw, target_lineage, at_x) ==
  (IF ls[target_lineage]._initial_bundle = NoRef
   THEN {Read("lineage.membership_events", target_lineage)} ELSE {})
  \cup (IF TargetBundle(ls[target_lineage], at_x) # NoRef
        THEN GeometryAccesses(bs, vw, TargetBundle(ls[target_lineage], at_x), at_x + 1)
        ELSE {})

\* the shift events of the span whose target is resolved
CollectAccesses(ls, bs, vw, events, current_x, end_segment_x) ==
  UNION {ResolveAccesses(ls, bs, vw, events[i].target_lineage, events[i].to_x) :
           i \in {j \in 1..Len(events) : /\ events[j].from_x >= current_x
                                         /\ events[j].to_x <= end_segment_x
                                         /\ events[j].target_lineage # NoRef}}

\* the accesses of the two arms of one iteration of the while loop
ArmAccesses(ls, bs, vw, me, c, has_next, next_event, end_segment_x) ==
  IF ~c.is_dependent
  THEN {Read("lineage.shift_events", me)}
       \cup CollectAccesses(ls, bs, vw, ls[me].shift_events, c.current_x, end_segment_x)
       \cup (IF has_next /\ next_event.type = JOIN
             THEN GeometryAccesses(bs, vw, next_event.assembly, JoinCenterX(next_event))
             ELSE {})
  ELSE IF has_next /\ next_event.type = LEAVE
  THEN GeometryAccesses(bs, vw, c.current_bundle, next_event.from_x + 1)
       \cup (IF next_event.target_lineage # NoRef
             THEN ResolveAccesses(ls, bs, vw, next_event.target_lineage, next_event.to_x)
             ELSE {})
  ELSE {}

\* one iteration of the while loop: the next event is read, a segment is appended
StepAccesses(ls, bs, vw, me, c) ==
  {Read("lineage.membership_events", me), Write("lineage.computed_segments", me)}
  \cup ArmAccesses(ls, bs, vw, me, c,
                   c.event_index < Len(ls[me].membership_events),
                   NextEvent(ls[me], c),
                   IF c.event_index < Len(ls[me].membership_events)
                   THEN NextEvent(ls[me], c).from_x ELSE c.max_x)

\* segment.compile(): an independent segment sorts the scale events it shares with
\* its lineage (when the attribute reads succeed), a dependent one reads the point
\* cache and interpolates the missing end points
SegmentAccesses(ls, bs, vw, segment) ==
  IF segment.kind = INDEPENDENT
  THEN IF compile(ls, bs, vw, segment).raised = ""
       THEN {Write("lineage.scale_events", segment.lineage)} ELSE {}
  ELSE {Read("bundle.compiled_member_points", segment.bundle)}
       \cup (IF segment.lineage \in DOMAIN bs[segment.bundle].compiled_member_points
                /\ InterpolatesStart(bs[segment.bundle], segment.lineage,
                                     segment.start_x, segment.end_x)
             THEN GeometryAccesses(bs, vw, segment.bundle, segment.start_x) ELSE {})
       \cup (IF segment.lineage \in DOMAIN bs[segment.bundle].compiled_member_points
                /\ InterpolatesEnd(bs[segment.bundle], ls, vw, segment.lineage,
                                   segment.start_x, segment.end_x)
             THEN GeometryAccesses(bs, vw, segment.bundle, segment.end_x) ELSE {})

\* the gathering loop of draw: the segments up to the first compile that raises
RECURSIVE GatherAccesses(_, _, _, _)
GatherAccesses(ls, bs, vw, segments) ==
  IF segments = <<>> THEN {}
  ELSE SegmentAccesses(ls, bs, vw, Head(segments))
       \cup (IF compile(ls, bs, vw, Head(segments)).raised = ""
             THEN GatherAccesses(ls, bs, vw, Tail(segments)) ELSE {})

DrawAccesses(ls, bs, vw, me) ==
  {Read("lineage.computed_segments", me)}
  \cup GatherAccesses(ls, bs, vw, ls[me].computed_segments)

\* the lineage list after the width queries of draw
RECURSIVE DrawQueried(_, _, _, _)
DrawQueried(ls, bs, vw, segments) ==
  IF segments = <<>> THEN ls
  ELSE IF compile(ls, bs, vw, Head(segments)).raised # "" THEN ls
  ELSE IF Head(segments).kind = INDEPENDENT
  THEN DrawQueried([ls EXCEPT ![Head(segments).lineage] = WidthQueried(@, Head(segments).end_x)],
                   bs, vw, Tail(segments))
  ELSE IF Head(segments).lineage \notin DOMAIN bs[Head(segments).bundle].compiled_member_points
  THEN DrawQueried(ls, bs, vw, Tail(segments))
  ELSE DrawQueried(
         PointsQueried(ls, bs[Head(segments).bundle], vw,
                       InterpolatesStart(bs[Head(segments).bundle], Head(segments).lineage,
                                         Head(segments).start_x, Head(segments).end_x),
                       Head(segments).start_x,
                       InterpolatesEnd(bs[Head(segments).bundle], ls, vw,
                                       Head(segments).lineage,
                                       Head(segments).start_x, Head(segments).end_x),
                       Head(segments).end_x),
         bs, vw, Tail(segments))

\* thread t runs compile_segments and draw of lineage t
Threads     == {1, 2}
ThreadStart == [pc |-> "compile", c |-> NoLocals]

\* the diagrams of the threads' runs: lineage 1 plain, joining bundle 1 or created in
\* it; lineage 2 plain, shifting towards lineage 1, joining bundle 2 or joining
\* bundle 1; with or without a third lineage that leaves bundle 1 for bundle 2
ThreadDiagrams(vw) ==
  LET d0     == D(<<>>, InitBundles)
      plain  == D(<<Lineage(0, Rat(5), Rat(2))>>, InitBundles)
      firsts == {plain, join(plain, vw, 1, 1, 2, 1, -1),
                 create_in_bundle(d0, vw, 1, Rat(2), 1, -1, 0)}
      second(d) == D(Append(d.ls, Lineage(0, Rat(2), Rat(1))), d.bs)
      seconds == UNION {{second(d),
                         shift_to(second(d), 2, 1, 2, Rat(7), 1, Zero),
                         join(second(d), vw, 2, 3, 5, 2, -1),
                         join(second(d), vw, 2, 1, 2, 1, -1)} : d \in firsts}
  IN seconds
     \cup {join(leave(create_in_bundle(d, vw, 0, Rat(1), 1, -1, 0),
                      3, 1, 2, 1, Rat(3), NoRef, Zero),
                vw, 3, 3, 5, 2, -1) : d \in seconds}

ThreadInit ==
  /\ view_width = MaxX
  /\ resolution \in Resolutions
  /\ \E d \in ThreadDiagrams(MaxX) : lineages = d.ls /\ bundles = d.bs
  /\ pc = "build"
  /\ bidx = 0
  /\ lidx = 0
  /\ cs = NoLocals
  /\ trace = <<>>
  /\ ncalls = 0
  /\ fn = [op |-> "none"]

\* the bundle loop is over: the lineage loop hands lineages 1 and 2 to two threads
Fork ==
  /\ pc = "solve"
  /\ bidx > Len(bundles)
  /\ pc' = "threads"
  /\ fn' = [op |-> "threads", th |-> [t \in Threads |-> ThreadStart]]
  /\ UNCHANGED <<view_width, resolution, lineages, bundles, bidx, lidx, cs, trace, ncalls>>

\* compile_segments up to the while loop, in thread t
ThreadCompileBegin(t) ==
  /\ pc = "threads"
  /\ fn.th[t].pc = "compile"
  /\ lineages' = [lineages EXCEPT ![t].computed_segments = <<>>,
                                  ![t].membership_events = SortByFromX(@)]
  /\ fn' = [fn EXCEPT !.th[t] = [pc |-> "loop", c |-> CompileLocals(lineages[t], view_width)]]
  /\ UNCHANGED <<view_width, resolution, bundles, pc, bidx, lidx, cs, trace, ncalls>>

\* the iteration's writes in thread t
ThreadIterated(t, r) == lineages' = r.ls /\ fn' = [fn EXCEPT !.th[t].c = r.c]

\* one iteration of the while loop, in thread t
ThreadCompileStep(t) ==
  /\ pc = "threads"
  /\ fn.th[t].pc = "loop"
  /\ ~fn.th[t].c.broke
  /\ fn.th[t].c.current_x < fn.th[t].c.max_x
  /\ ThreadIterated(t, LoopBody(lineages, bundles, view_width, t, fn.th[t].c))
  /\ UNCHANGED <<view_width, resolution, bundles, pc, bidx, lidx, cs, trace, ncalls>>

\* the while loop is left, in thread t
ThreadCompileReturn(t) ==
  /\ pc = "threads"
  /\ fn.th[t].pc = "loop"
  /\ fn.th[t].c.broke \/ ~(fn.th[t].c.current_x < fn.th[t].c.max_x)
  /\ fn' = [fn EXCEPT !.th[t] = [pc |-> "draw", c |-> NoLocals]]
  /\ UNCHANGED <<view_width, resolution, lineages, bundles, pc, bidx, lidx, cs, trace, ncalls>>

\* lineage.draw(), in thread t
ThreadDraw(t) ==
  /\ pc = "threads"
  /\ fn.th[t].pc = "draw"
  /\ lineages' = DrawQueried(lineages, bundles, view_width, lineages[t].computed_segments)
  /\ fn' = [fn EXCEPT !.th[t].pc = "done"]
  /\ UNCHANGED <<view_width, resolution, bundles, pc, bidx, lidx, cs, trace, ncalls>>

CompileBegins  == \E t \in Threads : ThreadCompileBegin(t)
CompileSteps   == \E t \in Threads : ThreadCompileStep(t)
CompileReturns == \E t \in Threads : ThreadCompileReturn(t)
Draws          == \E t \in Threads : ThreadDraw(t)

ThreadNext ==
  Generate \/ SolveGeometry \/ Fork \/ CompileBegins \/ CompileSteps \/ CompileReturns
  \/ Draws

ThreadSpec == ThreadInit /\ [][ThreadNext]_vars

----------------------------------------------------------------------------
(* The builder calls join and leave, for both lineages, both bundles and every index *)

MemberSpans   == {<<1, 2>>, <<3, 5>>}
MemberIndexes == {-1, 0}

\* lineage.join(from_x, to_x, to_assembly, index): fn keeps the call and the bundles
\* as they were before it
MemberJoin ==
  /\ CanBuild
  /\ \E l \in 1..Len(lineages), span \in MemberSpans, b \in 1..Len(bundles),
        index \in MemberIndexes :
       /\ lineages' = join(Here, view_width, l, span[1], span[2], b, index).ls
       /\ bundles' = join(Here, view_width, l, span[1], span[2], b, index).bs
       /\ fn' = [op |-> "join", lineage |-> l, from_x |-> span[1], to_x |-> span[2],
                 bundle |-> b, index |-> index, before |-> bundles]
  /\ ncalls' = ncalls + 1
  /\ UNCHANGED <<view_width, resolution, pc, bidx, lidx, cs, trace>>

\* lineage.leave(from_x, to_x, from_assembly, to_y)
MemberLeave ==
  /\ CanBuild
  /\ \E l \in 1..Len(lineages), span \in MemberSpans, b \in 1..Len(bundles) :
       /\ lineages' = leave(Here, l, span[1], span[2], b, Rat(3), NoRef, Zero).ls
       /\ bundles' = leave(Here, l, span[1], span[2], b, Rat(3), NoRef, Zero).bs
       /\ fn' = [op |-> "leave", lineage |-> l, from_x |-> span[1], to_x |-> span[2],
                 bundle |-> b, index |-> -1, before |-> bundles]
  /\ ncalls' = ncalls + 1
  /\ UNCHANGED <<view_width, resolution, pc, bidx, lidx, cs, trace>>

MemberNext == MemberJoin \/ MemberLeave

MemberSpec == Init /\ [][MemberNext]_vars

----------------------------------------------------------------------------
(* Bundle._calculate_layout over lists of fade factors *)

MaxMembers    == 4
LayoutFactors == {Zero, <<1, 4>>, Half, <<199, 200>>, One}
LayoutMargins == {Rat(1), Rat(2)}

\* members 1..n of a bundle, each present over the whole view; lineage i has width i
LayoutMemberships(n) == [i \in 1..n |-> BundleMembership(i, 0, MaxX, 0, 0)]

LayoutInit ==
  /\ Idle
  /\ lineages = [i \in 1..MaxMembers |-> Lineage(0, Rat(5), Rat(i))]
  /\ \E n \in 1..MaxMembers, margin \in LayoutMargins :
       \E factors \in [1..n -> LayoutFactors] :
         fn = [op |-> "call", margin |-> margin, factors |-> factors,
               widths |-> <<>>, gaps |-> <<>>]

\* the body of _calculate_layout below the factor list: fn keeps the widths and gaps
CalculateLayout ==
  /\ fn.op = "call"
  /\ fn' = [fn EXCEPT
              !.op = "_calculate_layout",
              !.widths = LayoutOfFactors(Bundle(0, Rat(10), fn.margin), lineages,
                                         LayoutMemberships(Len(fn.factors)), 1,
                                         fn.factors)[1],
              !.gaps = LayoutOfFactors(Bundle(0, Rat(10), fn.margin), lineages,
                                       LayoutMemberships(Len(fn.factors)), 1,
                                       fn.factors)[2]]
  /\ UNCHANGED <<view_width, resolution, lineages, bundles, pc, bidx, lidx, cs, trace,
                 ncalls>>

LayoutNext == CalculateLayout

LayoutSpec == LayoutInit /\ [][LayoutNext]_vars

----------------------------------------------------------------------------
(* Stacking: joins and leaves of bundle 1, then the solve pass of generate *)

\* lineage.join(3, 5, bundle 1, index); fn keeps the call
StackJoin ==
  /\ CanBuild
  /\ \E l \in 1..Len(lineages), index \in MemberIndexes :
       /\ lineages' = join(Here, view_width, l, 3, 5, 1, index).ls
       /\ bundles' = join(Here, view_width, l, 3, 5, 1, index).bs
       /\ fn' = [op |-> "join", lineage |-> l, from_x |-> 3, to_x |-> 5, index |-> index]
  /\ ncalls' = ncalls + 1
  /\ UNCHANGED <<view_width, resolution, pc, bidx, lidx, cs, trace>>

\* lineage.leave(3, 5, bundle 1, to_y)
StackLeave ==
  /\ CanBuild
  /\ \E l \in 1..Len(lineages) :
       /\ lineages' = leave(Here, l, 3, 5, 1, Rat(3), NoRef, Zero).ls
       /\ bundles' = leave(Here, l, 3, 5, 1, Rat(3), NoRef, Zero).bs
       /\ fn' = [op |-> "leave", lineage |-> l, from_x |-> 3, to_x |-> 5, index |-> -1]
  /\ ncalls' = ncalls + 1
  /\ UNCHANGED <<view_width, resolution, pc, bidx, lidx, cs, trace>>

StackNext == StackJoin \/ StackLeave \/ Generate \/ SolveGeometry \/ SolveDone

StackSpec == Init /\ [][StackNext]_vars

----------------------------------------------------------------------------
(* compile_segments over shift events around the membership events *)

\* the shift spans of the script: before, between, across and after the join and
\* leave transitions over [1, 2] and [3, 5]
SpanShifts == {<<0, 1>>, <<2, 3>>, <<2, 4>>, <<5, 6>>}

\* lineage.shift_to(from_x, to_x, to_y)
ShiftSpanTo ==
  /\ CanBuild
  /\ \E span \in SpanShifts, to_y \in ShiftYs :
       Built(shift_to(Here, 1, span[1], span[2], to_y, NoRef, Zero))

ShiftNext ==
  \/ Join
  \/ Leave
  \/ ShiftSpanTo
  \/ Generate
  \/ SolveGeometry
  \/ SolveDone
  \/ CompileBegin
  \/ CompileStep
  \/ CompileReturn
  \/ Draw

ShiftSpec == Init /\ [][ShiftNext]_vars

----------------------------------------------------------------------------
(* generate with the two lookups of a bundle called between its steps *)

CacheNext ==
  \/ Generate
  \/ SolveGeometry
  \/ SolveDone
  \/ GetCenterPointOfMemberAt
  \/ GetCompiledPointsFor
  \/ CompileBegin
  \/ CompileStep
  \/ CompileReturn
  \/ Draw

CacheSpec == LookupInit /\ [][CacheNext]_vars

----------------------------------------------------------------------------
(* get_baseline_path and get_width_at on the same events added in two orders *)

\* the lists that hold every element of the set once
Orders(set) ==
  {s \in [1..Cardinality(set) -> set] : \A i, j \in 1..Cardinality(set) : i # j => s[i] # s[j]}

\* the scale events of WidthSpec as records; no two of them, and no two of
\* BaselineEvents, share a from_x
OrderScaleEvents == {ScaleEvent(e[1], e[2], e[3]) : e \in WidthEvents}

OrderInit ==
  /\ Idle
  /\ lineages = <<>>
  /\ \/ \E events \in SUBSET BaselineEvents, end_x \in BaselineEnds :
          /\ Cardinality(events) <= MaxEvents
          /\ \E first \in Orders(events), second \in Orders(events) :
               fn = [op |-> "call", kind |-> "shift", first |-> first, second |-> second,
                     end_x |-> end_x, first_result |-> <<>>, second_result |-> <<>>]
     \/ \E events \in SUBSET OrderScaleEvents, end_x \in WidthEnds \cup {NoX} :
          /\ Cardinality(events) <= MaxEvents
          /\ \E first \in Orders(events), second \in Orders(events) :
               fn = [op |-> "call", kind |-> "scale", first |-> first, second |-> second,
                     end_x |-> end_x, first_result |-> <<>>, second_result |-> <<>>]

\* two paths starting at (0, 5) whose shift_to calls came in the two orders
OrderGetBaselinePath ==
  /\ fn.op = "call"
  /\ fn.kind = "shift"
  /\ fn' = [fn EXCEPT !.op = "get_baseline_path",
                      !.first_result = get_baseline_path(0, Rat(5), fn.first, fn.end_x),
                      !.second_result = get_baseline_path(0, Rat(5), fn.second, fn.end_x)]
  /\ UNCHANGED <<view_width, resolution, lineages, bundles, pc, bidx, lidx, cs, trace,
                 ncalls>>

\* the widths at every X of two paths of start_w = 10 whose scale_to calls came in
\* the two orders
WidthsAt(scale_events, end_x) ==
  [x \in WidthXs |-> get_width_at(Rat(10), scale_events, end_x, x)]

OrderGetWidthAt ==
  /\ fn.op = "call"
  /\ fn.kind = "scale"
  /\ fn' = [fn EXCEPT !.op = "get_width_at",
                      !.first_result = WidthsAt(fn.first, fn.end_x),
                      !.second_result = WidthsAt(fn.second, fn.end_x)]
  /\ UNCHANGED <<view_width, resolution, lineages, bundles, pc, bidx, lidx, cs, trace,
                 ncalls>>

OrderNext == OrderGetBaselinePath \/ OrderGetWidthAt

OrderSpec == OrderInit /\ [][OrderNext]_vars

----------------------------------------------------------------------------
(* Segment.compile called again on a segment object of a compiled lineage *)

\* the classes of the segment objects: IndependentSegment and DependentSegment of
\* segments.py, IndependantSegment of engine.py
SegmentClasses == {"IndependentSegment", "IndependantSegment", "DependentSegment"}

\* Segment.__init__: the two point lists are created once, with the object
NoPoints == Returned(<<>>, <<>>)

\* segments.py, IndependentSegment.compile on an object whose lists hold `stored`:
\* every sample is appended to self._upper_points / self._lower_points, and the two
\* lists are what the call returns
IndependentCompileOn(ls, segment, stored) ==
  IF ~(ShiftablePathReads \subseteq IndependentSegmentAttributes) THEN Raised("AttributeError")
  ELSE IF get_baseline_path(segment.start_x, segment.start_y, segment.shift_events,
                            segment.end_x) = <<>>
  THEN NoPoints
  ELSE IF ~(ScalablePathReads \subseteq IndependentSegmentAttributes) THEN Raised("AttributeError")
  ELSE SamplePieces(get_baseline_path(segment.start_x, segment.start_y, segment.shift_events,
                                      segment.end_x),
                    segment.start_w, ls[segment.lineage].scale_events, segment.end_x,
                    Returned(stored.upper, stored.lower))

\* engine.py, IndependantSegment.compile on a segment without shift events, whose
\* baseline is one horizontal Line: the samples np.linspace(0, 1, resolution) of the
\* line are appended to self.upper_points / self.lower_points, which the call returns
IndependantCompileOn(ls, res, segment, stored) ==
  LET x(i)     == segment.start_x + ((i - 1) * (segment.end_x - segment.start_x)) \div (res - 1)
      width(i) == get_width_at(segment.start_w, ls[segment.lineage].scale_events,
                               segment.end_x, x(i))
      point(i) == <<x(i), segment.start_y>>
  IN IF get_baseline_path(segment.start_x, segment.start_y, segment.shift_events,
                          segment.end_x) = <<>>
     THEN NoPoints
     ELSE Returned(
            stored.upper \o SubSeq([i \in 1..res |-> Offset(point(i), RMul(width(i), Half))],
                                   1, res),
            stored.lower \o SubSeq([i \in 1..res |-> Offset(point(i), RNeg(RMul(width(i), Half)))],
                                   1, res))

\* compile() of the object of class `class` built from `segment`
CompileOn(ls, bs, vw, res, class, segment, stored) ==
  IF class = "DependentSegment" THEN DependentCompile(ls, bs, vw, segment)
  ELSE IF class = "IndependantSegment" THEN IndependantCompileOn(ls, res, segment, stored)
  ELSE IndependentCompileOn(ls, segment, stored)

\* the call reached its sampling loop: the lists of the object are the ones returned
Sampled(segment, result) ==
  /\ segment.kind = INDEPENDENT
  /\ result.raised = ""
  /\ get_baseline_path(segment.start_x, segment.start_y, segment.shift_events,
                       segment.end_x) # <<>>

\* get_baseline_path sorted the shift events of the segment and get_width_at the scale
\* events of the owning lineage, a list the segment shares with it
SegmentQueried(ls, l, k) ==
  [ls EXCEPT ![l] = [@ EXCEPT !.scale_events = SortByFromX(@),
                              !.computed_segments =
                                 [@ EXCEPT ![k] = [@ EXCEPT !.shift_events = SortByFromX(@)]]]]

\* segment.compile() on segment k of the lineage that compile_segments just compiled,
\* before Lineage.draw reads it: fn follows one object, the points its lists hold
\* after every call and what every call returned.  The engine.py class is called on
\* the segments whose samples fall on whole X
SegmentCompile ==
  /\ pc = "draw"
  /\ ncalls < MaxCalls
  /\ \E k \in 1..Len(lineages[lidx].computed_segments), class \in SegmentClasses :
       LET segment == lineages[lidx].computed_segments[k]
           first   == fn.op # "compile"
           stored  == IF first THEN NoPoints ELSE fn.stored
           result  == CompileOn(lineages, bundles, view_width, resolution, class, segment,
                                stored)
       IN /\ IF first THEN TRUE ELSE fn.lineage = lidx /\ fn.index = k /\ fn.class = class
          /\ (class = "DependentSegment") = (segment.kind = DEPENDENT)
          /\ class = "IndependantSegment" =>
               /\ segment.shift_events = <<>>
               /\ (segment.end_x - segment.start_x) % (resolution - 1) = 0
          /\ IF segment.kind = DEPENDENT
             THEN IF segment.lineage \in DOMAIN bundles[segment.bundle].compiled_member_points
                  THEN PointsLookedUp(segment.bundle, segment.lineage, segment.start_x,
                         segment.end_x,
                         InterpolatesStart(bundles[segment.bundle], segment.lineage,
                                           segment.start_x, segment.end_x),
                         InterpolatesEnd(bundles[segment.bundle], lineages, view_width,
                                         segment.lineage, segment.start_x, segment.end_x))
                  ELSE bundles' = bundles /\ lineages' = lineages
             ELSE /\ bundles' = bundles
                  /\ lineages' = IF Sampled(segment, result)
                                 THEN SegmentQueried(lineages, lidx, k)
                                 ELSE lineages
          /\ fn' = [op |-> "compile", lineage |-> lidx, index |-> k, class |-> class,
                    stored  |-> IF Sampled(segment, result) THEN result ELSE stored,
                    results |-> Append(IF first THEN <<>> ELSE fn.results, result)]
  /\ ncalls' = ncalls + 1
  /\ UNCHANGED <<view_width, resolution, pc, bidx, lidx, cs, trace>>

RepeatNext ==
  \/ Generate
  \/ SolveGeometry
  \/ SolveDone
  \/ CompileBegin
  \/ CompileStep
  \/ CompileReturn
  \/ Draw
  \/ SegmentCompile

RepeatSpec == LookupInit /\ [][RepeatNext]_vars

----------------------------------------------------------------------------
(* Claims *)

Segs(l) == lineages[l].computed_segments

ExpectedTrace ==
  [i \in 1..(Len(bundles) + Len(lineages)) |->
     IF i <= Len(bundles) THEN <<"solve", i>> ELSE <<"compile", i - Len(bundles)>>]

\* C1: in generate every bundle is solved, in registration order, before the first
\* lineage is compiled; lineages are compiled in registration order; each bundle is
\* solved once and each lineage compiled once (the calls made so far are a prefix of
\* solve 1..n, compile 1..m, and all of it when generate is done)
C1_TwoPhasePipeline ==
  /\ Len(trace) <= Len(ExpectedTrace)
  /\ trace = SubSeq(ExpectedTrace, 1, Len(trace))
  /\ pc = "done" => trace = ExpectedTrace

C1_Witness ==
  /\ pc = "done"
  /\ Len(bundles) >= 2
  /\ Len(lineages) >= 2
  /\ Len(trace) = Len(bundles) + Len(lineages)

Kinds(l) == [i \in 1..Len(Segs(l)) |-> Segs(l)[i].kind]

\* the LEAVE of the round trip and the last X of lineage 1
RoundTripLeave == lineages[1].membership_events[2]

RoundTripMaxX == IF lineages[1].end_x # NoX THEN lineages[1].end_x ELSE view_width

\* C2 as stated: the round trip compiles to exactly [Independent, Dependent,
\* Independent]
C2_RoundTripThreeSegments ==
  pc = "done" => Kinds(1) = <<INDEPENDENT, DEPENDENT, INDEPENDENT>>

\* C2, amended: the round trip compiles to [Independent, Dependent, Independent,
\* Independent] (the JOIN transition, the stay in the bundle, the LEAVE transition
\* and the rest of the lineage) when the LEAVE transition ends before the lineage's
\* last X, and to [Independent, Dependent, Independent] only when it ends at or
\* after it
C2_RoundTripSegments ==
  pc = "done" =>
    Kinds(1) = IF RoundTripLeave.to_x < RoundTripMaxX
               THEN <<INDEPENDENT, DEPENDENT, INDEPENDENT, INDEPENDENT>>
               ELSE <<INDEPENDENT, DEPENDENT, INDEPENDENT>>

C2_Witness ==
  /\ pc = "done"
  /\ RoundTripLeave.type = LEAVE
  /\ RoundTripLeave.to_x < RoundTripMaxX
  /\ Len(Segs(1)) = 4
  /\ Segs(1)[3].end_x = RoundTripLeave.to_x
  /\ Segs(1)[4].end_x = RoundTripMaxX

\* the locals the while condition and the branches of the loop body read
LoopControl(c) == <<c.current_x, c.event_index, c.is_dependent, c.current_bundle>>

\* C3: compile_segments terminates: every iteration of its while loop either breaks
\* or changes the locals that control the loop (it consumes a membership event or
\* moves current_x); an iteration that changes none of them repeats forever, the
\* body being a function of these locals and of the unchanged event list
C3_CompileTerminates ==
  [][(pc = "loop" /\ pc' = "loop") =>
       (cs'.broke \/ LoopControl(cs') # LoopControl(cs))]_vars

\* the Y a segment's baseline (get_baseline_path) ends at, with the end X
BaselineEnd(seg) ==
  LET path == get_baseline_path(seg.start_x, seg.start_y, seg.shift_events, seg.end_x)
  IN IF path = <<>> THEN <<seg.start_x, seg.start_y>> ELSE path[Len(path)].p1

\* the first (upper, lower) pair a DependentSegment obtains from its bundle
FirstPair(seg) ==
  LET pts == get_compiled_points_for(bundles[seg.bundle], lineages, view_width,
                                     seg.lineage, seg.start_x, seg.end_x)
  IN <<pts[1][1], pts[2][1]>>

\* an IndependentSegment at position i of lineage l that a JOIN emitted: the
\* DependentSegment of the joined bundle follows it
JoinSeam(l, i) ==
  /\ i < Len(Segs(l))
  /\ Segs(l)[i].kind = INDEPENDENT
  /\ Segs(l)[i + 1].kind = DEPENDENT

\* C4: at a JOIN seam the independent segment's baseline ends at (join.to_x, Y), Y the
\* bundle's member-centre Y of the lineage at join.to_x, and Y is the midpoint of the
\* first point pair the following DependentSegment gets from the bundle
C4_JoinSeamNoGap ==
  \A l \in 1..Len(lineages) : \A i \in 1..Len(Segs(l)) :
    JoinSeam(l, i) =>
      LET seg  == Segs(l)[i]
          dep  == Segs(l)[i + 1]
          Y    == CenterYOfMemberAt(bundles[dep.bundle], lineages, view_width, seg.end_x, l)
          pair == FirstPair(dep)
      IN /\ dep.start_x = seg.end_x
         /\ BaselineEnd(seg) = <<seg.end_x, Y>>
         /\ RMul(Half, RAdd(pair[1][2], pair[2][2])) = Y

\* a JOIN seam where the lineage shares the bundle with another member, once with
\* the first pair read from the cache and once with the pair synthesized
C4_Witness ==
  /\ pc = "done"
  /\ \E i \in 1..Len(Segs(1)) :
       /\ JoinSeam(1, i)
       /\ Len(get_memberships_at(bundles[1], Segs(1)[i].end_x)) >= 2
       /\ CenterYOfMemberAt(bundles[1], lineages, view_width, Segs(1)[i].end_x, 1)
            # bundles[1].start_y
       /\ \E k \in 1..Len(bundles[1].compiled_member_points[1][1]) :
            bundles[1].compiled_member_points[1][1][k][1] = Segs(1)[i].end_x

\* lineage l is registered in bundle b over [s, e]
InsideMembership(l, b, s, e) ==
  \E k \in 1..Len(bundles[b].memberships) :
    LET membership == bundles[b].memberships[k]
    IN membership.lineage = l /\ membership.start_x <= s /\ e <= membership.end_x

ActiveIn(l, b, x) ==
  \E k \in 1..Len(bundles[b].memberships) :
    LET membership == bundles[b].memberships[k]
    IN membership.lineage = l /\ membership.start_x <= x /\ x <= membership.end_x

\* lineage l has completely left bundle b at x: a LEAVE from b ended before x and
\* no JOIN into b starts between that LEAVE and x
HasLeft(l, b, x) ==
  \E i \in 1..Len(lineages[l].membership_events) :
    LET ev == lineages[l].membership_events[i]
    IN /\ ev.type = LEAVE /\ ev.assembly = b /\ ev.to_x < x
       /\ ~\E j \in 1..Len(lineages[l].membership_events) :
             LET jv == lineages[l].membership_events[j]
             IN jv.type = JOIN /\ jv.assembly = b /\ ev.from_x <= jv.from_x /\ jv.from_x <= x

\* C5: after the builder calls and compile_segments, every DependentSegment [s, e] of
\* L referencing B lies inside a membership of L in B, and no membership of L in B is
\* active at an X from which L has completely left B
C5_StackingConsistent ==
  pc = "done" =>
    \A l \in 1..Len(lineages) :
      /\ \A i \in 1..Len(Segs(l)) :
           Segs(l)[i].kind = DEPENDENT =>
             InsideMembership(l, Segs(l)[i].bundle, Segs(l)[i].start_x, Segs(l)[i].end_x)
      /\ \A b \in 1..Len(bundles) : \A x \in 0..view_width :
           HasLeft(l, b, x) => ~ActiveIn(l, b, x)

\* the members of bundle b active at x and their presence factors
ActiveAt(b, x) == get_memberships_at(bundles[b], x)

FullPresenceAt(b, x) ==
  /\ ActiveAt(b, x) # <<>>
  /\ \A i \in 1..Len(ActiveAt(b, x)) : _get_factor(ActiveAt(b, x)[i], x) = One

\* C6: at an X where bundle b has N active members, all of presence factor 1, the
\* total lane width of the layout is sum(member widths) + margin * (N - 1), the
\* first slot starts at -total/2, the last ends at +total/2, every slot is as wide as
\* its member, and each slot starts one margin after the previous one ends
C6_WidthConservation ==
  \A b \in 1..Len(bundles) : \A x \in 0..view_width :
    FullPresenceAt(b, x) =>
      LET memberships == ActiveAt(b, x)
          N      == Len(memberships)
          width  == [i \in 1..N |-> LineageWidthAt(lineages[memberships[i].lineage], x)]
          total  == RAdd(RSum(width), RMul(bundles[b].margin, Rat(N - 1)))
          layout == _calculate_layout(bundles[b], lineages, memberships, x)
          slots  == StackOffsets(bundles[b], lineages, x)
      IN /\ RAdd(RSum(layout[1]), RSum(layout[2])) = total
         /\ Len(slots) = N
         /\ slots[1].lower_offset = RNeg(RMul(Half, total))
         /\ slots[N].upper_offset = RMul(Half, total)
         /\ \A i \in 1..N :
              /\ slots[i].lineage = memberships[i].lineage
              /\ RSub(slots[i].upper_offset, slots[i].lower_offset) = width[i]
         /\ \A i \in 1..(N - 1) :
              slots[i + 1].lower_offset = RAdd(slots[i].upper_offset, bundles[b].margin)

\* bundle 1 stacks three members of different widths at full presence at one X, and
\* has a member that is fading at another
C6_Witness ==
  /\ \E x \in 0..view_width :
       /\ FullPresenceAt(1, x)
       /\ Len(ActiveAt(1, x)) >= 3
       /\ \E i, j \in 1..Len(ActiveAt(1, x)) :
            LineageWidthAt(lineages[ActiveAt(1, x)[i].lineage], x)
              # LineageWidthAt(lineages[ActiveAt(1, x)[j].lineage], x)
  /\ \E x \in 0..view_width : ActiveAt(1, x) # <<>> /\ ~FullPresenceAt(1, x)

\* the scale events are non-overlapping transitions of positive length
NonOverlapping(events) ==
  /\ \A i \in 1..Len(events) : events[i].from_x < events[i].to_x
  /\ \A i, j \in 1..Len(events) :
       i # j => events[i].to_x <= events[j].from_x \/ events[j].to_x <= events[i].from_x

\* the width reached by the transitions that ended at or before `bound`
SettledWidth(start_w, events, bound) ==
  LET ended == {i \in 1..Len(events) : events[i].to_x <= bound}
  IN IF ended = {} THEN start_w
     ELSE events[CHOOSE i \in ended : \A j \in ended : events[j].to_x <= events[i].to_x].to_w

\* the reference piecewise width profile
ReferenceWidth(start_w, events, end_x, x) ==
  LET inside == {i \in 1..Len(events) : events[i].from_x < x /\ x < events[i].to_x}
  IN IF end_x # NoX /\ x > end_x THEN Zero
     ELSE IF inside = {} THEN SettledWidth(start_w, events, x)
     ELSE LET e        == events[CHOOSE i \in inside : TRUE]
              previous == SettledWidth(start_w, events, e.from_x)
          IN RAdd(previous,
                  RMul(RSub(e.to_w, previous),
                       smootherstep(Norm(x - e.from_x, e.to_x - e.from_x))))

\* the lineage of the example: start_w = 10 and the one event (100, 200, 20)
WidthExample(self) ==
  /\ self.start_w = Rat(10)
  /\ self.scale_events = <<ScaleEvent(100000, 200000, Rat(20))>>
  /\ self.end_x = NoX

\* C7: for non-overlapping scale events, in whatever order they were added,
\* get_width_at(x) is the reference profile (previous width up to from_x, the
\* smootherstep interpolation inside the transition, to_w from to_x on, 0 past a
\* defined end_x); with start_w = 10 and the event (100, 200, 20): width(50) = 10,
\* width(100) = 10, width(200) = 20, width(150) = 10 + 10 * smootherstep(0.5) = 15
C7_WidthProfile ==
  fn.op = "get_width_at" /\ NonOverlapping(fn.self.scale_events) =>
    /\ fn.result = ReferenceWidth(fn.self.start_w, fn.self.scale_events, fn.self.end_x, fn.x)
    /\ fn.self.end_x # NoX /\ fn.x > fn.self.end_x => fn.result = Zero
    /\ WidthExample(fn.self) =>
         /\ fn.x = 50000 => fn.result = Rat(10)
         /\ fn.x = 100000 => fn.result = Rat(10)
         /\ fn.x = 200000 => fn.result = Rat(20)
         /\ fn.x = 150000 =>
              /\ fn.result = RAdd(Rat(10), RMul(Rat(10), smootherstep(Half)))
              /\ fn.result = Rat(15)

\* a query inside the transition of an event that was added before the event that
\* precedes it on the X axis
C7_Witness ==
  /\ fn.op = "get_width_at"
  /\ NonOverlapping(fn.self.scale_events)
  /\ Len(fn.self.scale_events) = 3
  /\ fn.self.scale_events # SortByFromX(fn.self.scale_events)
  /\ fn.self.scale_events[1].from_x < fn.x
  /\ fn.x < fn.self.scale_events[1].to_x
  /\ fn.self.scale_events[2].to_x <= fn.self.scale_events[1].from_x
  /\ fn.result # fn.self.start_w
  /\ fn.result # fn.self.scale_events[1].to_w

\* the merge layout call that fn holds
MergeCalled == fn.op = "_calculate_merge_layout"

MergeN == Len(fn.parents_widths)

\* the proportional share of the child's width of parent i
ProportionalShare(i) ==
  IF RLt(Zero, RSum(fn.parents_widths))
  THEN RDiv(RMul(fn.start_w, fn.parents_widths[i]), RSum(fn.parents_widths))
  ELSE RDiv(fn.start_w, Rat(MergeN))

TargetW(i) == fn.result[1][i]

BandLower(i) == RSub(fn.result[2][i], RMul(Half, TargetW(i)))

BandUpper(i) == RAdd(fn.result[2][i], RMul(Half, TargetW(i)))

ChildLower == RSub(fn.start_y, RMul(Half, fn.start_w))

ChildUpper == RAdd(fn.start_y, RMul(Half, fn.start_w))

BandInsideChild(i) == RLe(ChildLower, BandLower(i)) /\ RLe(BandUpper(i), ChildUpper)

\* C8: each parent's target width is min(max(own width, proportional share), W) and
\* its band [center - target/2, center + target/2] lies inside the child's extent
\* [child_y - W/2, child_y + W/2]
C8_MergeTargetAndBand ==
  MergeCalled =>
    /\ Len(fn.result[1]) = MergeN
    /\ Len(fn.result[2]) = MergeN
    /\ \A i \in 1..MergeN :
         /\ TargetW(i) = RMin(RMax(fn.parents_widths[i], ProportionalShare(i)), fn.start_w)
         /\ BandInsideChild(i)

\* three parents of different widths, one of them wider than its share and than the
\* child, whose band had to be moved inward
C8_Witness ==
  /\ MergeCalled
  /\ MergeN = 3
  /\ RLt(Zero, fn.start_w)
  /\ \E i, j \in 1..MergeN : fn.parents_widths[i] # fn.parents_widths[j]
  /\ \E i \in 1..MergeN :
       /\ RLt(fn.start_w, fn.parents_widths[i])
       /\ TargetW(i) = fn.start_w
       /\ fn.result[2][i] = fn.start_y
  /\ \E i \in 1..MergeN : RLt(ProportionalShare(i), TargetW(i)) /\ RLt(TargetW(i), fn.start_w)

\* a merge of two parents of equal width
TwoEqualParents ==
  MergeCalled /\ MergeN = 2 /\ fn.parents_widths[1] = fn.parents_widths[2]

\* the two bands fill the child's span without overlap
BandsTile ==
  /\ BandLower(1) = ChildLower
  /\ BandUpper(1) = BandLower(2)
  /\ BandUpper(2) = ChildUpper

\* C9 as stated: for two parents of equal width, whatever the width and W, each target
\* width is <= W and the two bands fill the child's span without overlapping
C9_TwoEqualParentsFill ==
  TwoEqualParents => RLe(TargetW(1), fn.start_w) /\ RLe(TargetW(2), fn.start_w) /\ BandsTile

\* C9, amended: for two parents of equal width w each target width is <= W and each
\* band lies inside the child's span; the bands fill the span without overlapping
\* when w <= W/2 (each target width is then W/2); when w > W/2 and W > 0 each target
\* width is min(w, W) > W/2 and the two bands overlap
C9_TwoEqualParents ==
  TwoEqualParents =>
    LET w == fn.parents_widths[1] IN
    /\ RLe(TargetW(1), fn.start_w) /\ RLe(TargetW(2), fn.start_w)
    /\ BandInsideChild(1) /\ BandInsideChild(2)
    /\ RLe(RMul(Rat(2), w), fn.start_w) =>
         TargetW(1) = RMul(Half, fn.start_w) /\ TargetW(2) = RMul(Half, fn.start_w) /\ BandsTile
    /\ RLt(fn.start_w, RMul(Rat(2), w)) /\ RLt(Zero, fn.start_w) =>
         /\ TargetW(1) = RMin(w, fn.start_w)
         /\ TargetW(2) = RMin(w, fn.start_w)
         /\ RLt(BandLower(2), BandUpper(1))

\* two equal parents wider than half the child and narrower than the child
C9_Witness ==
  /\ TwoEqualParents
  /\ RLt(fn.start_w, RMul(Rat(2), fn.parents_widths[1]))
  /\ RLt(fn.parents_widths[1], fn.start_w)
  /\ RLt(BandLower(2), BandUpper(1))

\* compile_segments run on lineage l of the diagram as it stands, for at most
\* `iterations` iterations: the segments, and whether the loop was left
RECURSIVE RunLoop(_, _, _, _)
RunLoop(ls, l, c, iterations) ==
  IF c.broke \/ ~(c.current_x < c.max_x)
  THEN [segments |-> ls[l].computed_segments, returned |-> TRUE]
  ELSE IF iterations = 0
  THEN [segments |-> ls[l].computed_segments, returned |-> FALSE]
  ELSE LET r == LoopBody(ls, bundles, view_width, l, c)
       IN RunLoop(r.ls, l, r.c, iterations - 1)

CompiledNow(l) ==
  RunLoop([lineages EXCEPT ![l].computed_segments = <<>>,
                           ![l].membership_events = SortByFromX(@)],
          l, CompileLocals(lineages[l], view_width), MaxSegments)

\* the compile state machine has lineage l inside a bundle at x: a DependentSegment
\* of l covers x
MachineDependentAt(l, x) ==
  \E i \in 1..Len(CompiledNow(l).segments) :
    LET seg == CompiledNow(l).segments[i]
    IN seg.kind = DEPENDENT /\ seg.start_x <= x /\ x < seg.end_x

\* x lies in the transition of a JOIN of lineage l
MachineJoiningAt(l, x) ==
  \E i \in 1..Len(lineages[l].membership_events) :
    LET ev == lineages[l].membership_events[i]
    IN ev.type = JOIN /\ ev.from_x <= x /\ x < ev.to_x

\* what the merge over [merge_from_x, start_x] installed on its i-th parent
InstalledOnParent(parents, i, merge_from_x, start_x, start_w, layout_base_y) ==
  LET old     == lineages[parents[i]]
      new     == lineages'[parents[i]]
      widths  == [k \in 1..Len(parents) |-> LineageWidthAt(lineages[parents[k]], merge_from_x)]
      target  == _calculate_merge_layout(widths, layout_base_y, start_w)[1][i]
      ne      == Len(new.membership_events)
      ns      == Len(new.shift_events)
      leave_installed ==
        /\ new.shift_events = old.shift_events
        /\ ne = Len(old.membership_events) + 1
        /\ SubSeq(new.membership_events, 1, ne - 1) = old.membership_events
        /\ new.membership_events[ne].type = LEAVE
        /\ new.membership_events[ne].from_x = merge_from_x
        /\ new.membership_events[ne].to_x = start_x
      shift_installed ==
        /\ new.membership_events = old.membership_events
        /\ ns = Len(old.shift_events) + 1
        /\ SubSeq(new.shift_events, 1, ns - 1) = old.shift_events
        /\ new.shift_events[ns].from_x = merge_from_x
        /\ new.shift_events[ns].to_x = start_x
  IN /\ new.end_x = start_x
     /\ new.scale_events
          = Append(SortByFromX(old.scale_events), ScaleEvent(merge_from_x, start_x, target))
     /\ IF MachineDependentAt(parents[i], merge_from_x) THEN leave_installed
        ELSE IF MachineJoiningAt(parents[i], merge_from_x)
        THEN leave_installed \/ shift_installed
        ELSE shift_installed
     /\ new.start_x = old.start_x /\ new.start_y = old.start_y /\ new.start_w = old.start_w
     /\ new._initial_bundle = old._initial_bundle
     /\ new.computed_segments = old.computed_segments

\* C10: a create_from_merge call installs on every parent one transition over
\* [merge_from_x, start_x] (a LEAVE membership event when the compile state machine
\* has the parent inside a bundle at merge_from_x, a ShiftEvent otherwise; either
\* one while the parent is in the transition of a JOIN), one ScaleEvent
\* (merge_from_x, start_x, target width) and end_x = start_x, adds no other event,
\* and changes no lineage but the parents and the new child; stated for the parents
\* whose compile_segments returns
C10_MergeInstallsOneTransition ==
  [][\A parents \in {<<1>>, <<1, 2>>}, span \in MergeSpans, start_w \in MergeWs,
        in_bundle \in {NoRef, 1} :
       (/\ pc = "build"
        /\ Len(lineages') = Len(lineages) + 1
        /\ D(lineages', bundles')
             = create_from_merge(Here, view_width, span[1], span[2], Rat(6), start_w,
                                 parents, in_bundle, -1))
       => /\ \A i \in 1..Len(parents) :
               CompiledNow(parents[i]).returned =>
               InstalledOnParent(parents, i, span[1], span[2], start_w,
                                 IF in_bundle # NoRef THEN Zero ELSE Rat(6))
          /\ \A l \in 1..Len(lineages) :
               (\A i \in 1..Len(parents) : parents[i] # l) => lineages'[l] = lineages[l]
     ]_vars

\* compile_segments has returned for lineage l in the running generate
Compiled(l) ==
  \/ pc = "done"
  \/ pc = "draw" /\ lidx >= l
  \/ pc \in {"compile", "loop"} /\ lidx > l

\* the X the lineage ends at: end_x, or the diagram's right edge
EndOf(l) == IF lineages[l].end_x # NoX THEN lineages[l].end_x ELSE view_width

\* C11: once compile_segments has returned, no segment of the lineage extends past
\* its end (the terminate_at X, or view_width without one): every segment has
\* end_x <= end and the last segment ends exactly there, whatever membership events
\* the lineage carries
C11_NoSegmentPastEnd ==
  \A l \in 1..Len(lineages) :
    Compiled(l) /\ Segs(l) # <<>> =>
      /\ \A i \in 1..Len(Segs(l)) : Segs(l)[i].end_x <= EndOf(l)
      /\ Segs(l)[Len(Segs(l))].end_x = EndOf(l)

\* the bundle lineage l is a member of at x by its own history: the bundle of the
\* last JOIN begun at or before x, none after a LEAVE that ended before x, the
\* bundle the lineage was created in when no event precedes x
RECURSIVE MemberBundleWalk(_, _, _)
MemberBundleWalk(events, x, bundle) ==
  IF events = <<>> THEN bundle
  ELSE MemberBundleWalk(Tail(events), x,
         IF Head(events).type = JOIN /\ Head(events).from_x <= x THEN Head(events).assembly
         ELSE IF Head(events).type = LEAVE /\ Head(events).to_x < x THEN NoRef
         ELSE bundle)

MemberBundleAt(l, x) ==
  MemberBundleWalk(SortByFromX(lineages[l].membership_events), x,
                   lineages[l]._initial_bundle)

\* the compiled shift events of lineage l over the transition [from_x, to_x]
TransitionShifts(l, from_x, to_x) ==
  {e \in UNION {{Segs(l)[i].shift_events[k] : k \in 1..Len(Segs(l)[i].shift_events)} :
                  i \in 1..Len(Segs(l))} :
     e.from_x = from_x /\ e.to_x = to_x}

\* the Y the baseline of lineage l reaches over the transition that names the
\* target: to_y + offset_y of the compiled shift event, as get_baseline_path adds them
ReachedYs(l) ==
  {RAdd(IF IsNone(e.to_y) THEN Zero ELSE e.to_y, e.offset_y) :
     e \in TransitionShifts(l, TargetFromX, TargetToX)}

\* C12: a shift or leave of lineage 2 that targets lineage 1 is resolved through the
\* bundle lineage 1 is a member of at the query X (the event's to_x, taken 1e-3
\* further as the query does): when lineage 1 joined a bundle before the query X and
\* has not left, or was created in a bundle and has not left, the transition reaches
\* the member-centre Y of lineage 1 in that bundle plus offset_y, the offset applied
\* once; when lineage 1 has left its bundle before the query X, the transition is not
\* resolved through that bundle and reaches the static target
C12_ResolvedThroughMemberBundle ==
  pc = "done" =>
    LET event  == IF lineages[2].shift_events # <<>> THEN lineages[2].shift_events[1]
                  ELSE lineages[2].membership_events[1]
        static == IF lineages[2].shift_events # <<>>
                  THEN RAdd(event.to_y, event.offset_y) ELSE event.target_y
        bundle == MemberBundleAt(1, TargetToX)
    IN ReachedYs(2) = {
         IF bundle # NoRef
         THEN RAdd(CenterYOfMemberAt(bundles[bundle], lineages, view_width,
                                     TargetToX + 1, 1), event.offset_y)
         ELSE static}

\* the lookup fn holds failed: the lineage had no active membership in the bundle at
\* the X on the baseline (centre lookup), or was absent from the point cache
CenterLookupFailed ==
  /\ fn.op = "get_center_point_of_member_at"
  /\ \A i \in 1..Len(fn.before[fn.bundle].memberships) :
       LET membership == fn.before[fn.bundle].memberships[i]
           x_on_path  == XOnPath(fn.before[fn.bundle], view_width, fn.x)
       IN membership.lineage = fn.lineage =>
            ~(membership.start_x <= x_on_path /\ x_on_path <= membership.end_x)

PointsLookupFailed ==
  /\ fn.op = "get_compiled_points_for"
  /\ fn.lineage \notin DOMAIN fn.before[fn.bundle].compiled_member_points

\* the shift events as a collection, their order left aside
EventBag(events) ==
  [e \in {events[i] : i \in 1..Len(events)} |->
     Cardinality({i \in 1..Len(events) : events[i] = e})]

\* memberships, point cache and the shift events' contents of every bundle are at
\* the return as they were at the call
LookupLeftBundles ==
  /\ Len(fn.after) = Len(fn.before)
  /\ \A b \in 1..Len(fn.after) :
       /\ fn.after[b].memberships = fn.before[b].memberships
       /\ fn.after[b].compiled_member_points = fn.before[b].compiled_member_points
       /\ EventBag(fn.after[b].shift_events) = EventBag(fn.before[b].shift_events)

\* C13: a failed lookup returns a fallback and changes no bundle state:
\* get_center_point_of_member_at for a lineage with no active membership at x returns
\* the bundle's baseline point at x, get_compiled_points_for for a lineage absent
\* from the point cache returns two empty sequences, and memberships, shift events'
\* contents and point cache are unchanged in both cases
C13_LookupFallback ==
  /\ CenterLookupFailed =>
       /\ fn.result = <<XOnPath(fn.before[fn.bundle], view_width, fn.x),
                        fn.before[fn.bundle].start_y>>
       /\ LookupLeftBundles
  /\ PointsLookupFailed =>
       /\ fn.result = <<<<>>, <<>>>>
       /\ LookupLeftBundles

\* after the solve phase: a centre lookup of a lineage that has a membership in the
\* bundle, none of them active at x, while the bundle stacks another member there
C13_Witness ==
  /\ pc = "compile"
  /\ CenterLookupFailed
  /\ fn.before[fn.bundle].start_x <= fn.x
  /\ get_memberships_at(fn.before[fn.bundle], fn.x) # <<>>
  /\ \E i \in 1..Len(fn.before[fn.bundle].memberships) :
       fn.before[fn.bundle].memberships[i].lineage = fn.lineage
  /\ fn.before[fn.bundle].compiled_member_points # <<>>

\* the Y a shift targets: to_y (0 without one) plus offset_y
TargetYOf(shift) == RAdd(IF IsNone(shift.to_y) THEN Zero ELSE shift.to_y, shift.offset_y)

\* the point the curve of fn ends at; the start point for an empty curve
CurveEnd == IF fn.result = <<>> THEN <<fn.start_x, fn.start_y>>
            ELSE fn.result[Len(fn.result)].p1

\* C14: for any list of shift events get_baseline_path returns a curve whose pieces
\* are chained without a jump (the first starts at (start_x, start_y), each next one
\* where the previous ended, none of zero length), whose last point has X equal to
\* end_x (999999 for a path without end_x) and Y equal to the target Y of the last
\* shift in X order (start_y without shifts); with zero events and start_x = end_x
\* the curve is empty
C14_BaselineContinuity ==
  fn.op = "get_baseline_path" =>
    LET sorted == SortByFromX(fn.shift_events)
    IN /\ fn.result # <<>> => fn.result[1].p0 = <<fn.start_x, fn.start_y>>
       /\ \A i \in 1..(Len(fn.result) - 1) : fn.result[i + 1].p0 = fn.result[i].p1
       /\ \A i \in 1..Len(fn.result) : fn.result[i].p0 # fn.result[i].p1
       /\ CurveEnd[1] = IF fn.end_x # NoX THEN fn.end_x ELSE 999999
       /\ CurveEnd[2] = IF sorted = <<>> THEN fn.start_y
                        ELSE TargetYOf(sorted[Len(sorted)])
       /\ fn.shift_events = <<>> /\ fn.start_x = fn.end_x => fn.result = <<>>

\* three shifts added out of X order, the last in X order ending before end_x: a
\* curve of lines and Beziers that ends with a line to end_x
C14_Witness ==
  /\ fn.op = "get_baseline_path"
  /\ Len(fn.shift_events) = 3
  /\ fn.shift_events # SortByFromX(fn.shift_events)
  /\ fn.end_x = MaxX
  /\ Len(fn.result) >= 5
  /\ fn.result[Len(fn.result)].kind = "Line"
  /\ \E i \in 1..Len(fn.result) : fn.result[i].kind = "CubicBezier"

\* the factor call that fn holds, and the windows of its membership
FactorCalled == fn.op = "_get_factor"

FadeInEnd == fn.membership.start_x + fn.membership.fade_in_duration

FadeOutStart == fn.membership.end_x - fn.membership.fade_out_duration

InFadeIn == fn.membership.start_x <= fn.x /\ fn.x < FadeInEnd

InFadeOut == FadeOutStart < fn.x /\ fn.x <= fn.membership.end_x

InStable == FadeInEnd <= fn.x /\ fn.x <= FadeOutStart

FadeInRamp == smootherstep(Norm(fn.x - fn.membership.start_x, fn.membership.fade_in_duration))

FadeOutRamp ==
  RSub(One, smootherstep(Norm(fn.x - FadeOutStart, fn.membership.fade_out_duration)))

FactorInUnitInterval == RLe(Zero, fn.factor) /\ RLe(fn.factor, One)

RECURSIVE RPow(_, _)
RPow(a, k) == IF k = 0 THEN One ELSE RMul(a, RPow(a, k - 1))

\* 6r^5 - 15r^4 + 10r^3
Quintic(r) ==
  RAdd(RSub(RMul(Rat(6), RPow(r, 5)), RMul(Rat(15), RPow(r, 4))), RMul(Rat(10), RPow(r, 3)))

\* C16: smootherstep(r) is 0 for r <= 0, 1 for r >= 1 and 6r^5 - 15r^4 + 10r^3 on
\* (0, 1); its values are in [0, 1] and it is non-decreasing: r <= s implies
\* smootherstep(r) <= smootherstep(s)
C16_Smootherstep ==
  fn.op = "smootherstep" =>
    /\ RLe(fn.r, Zero) => fn.at_r = Zero
    /\ RLe(One, fn.r) => fn.at_r = One
    /\ RLt(Zero, fn.r) /\ RLt(fn.r, One) => fn.at_r = Quintic(fn.r)
    /\ RLe(Zero, fn.at_r) /\ RLe(fn.at_r, One)
    /\ RLe(Zero, fn.at_s) /\ RLe(fn.at_s, One)
    /\ RLe(fn.at_r, fn.at_s)

\* two different ratios inside (0, 1), on either side of 1/2
C16_Witness ==
  /\ fn.op = "smootherstep"
  /\ RLt(Zero, fn.r) /\ RLt(fn.r, Half) /\ RLt(Half, fn.s) /\ RLt(fn.s, One)
  /\ RLt(fn.at_r, fn.r)
  /\ RLt(fn.s, fn.at_s)

\* C17 (as stated): for the lineage starting at (0, 50) with width 10, shifted to
\* Y 150 and scaled to width 20 over [100, 200], drawing the compiled segments
\* yields two boundary point sequences whose X never decreases, that start at
\* (0, 45) and (0, 55) and end at (view_width, 140) and (view_width, 160).
\* The package's IndependentSegment stores _shift_events and _scale_events, which
\* get_baseline_path and get_width_at do not read: compile raises AttributeError
NonDecreasingX(points) == \A i \in 1..(Len(points) - 1) : points[i][1] <= points[i + 1][1]

Drawn == draw(lineages, bundles, view_width, 1)

C17_EndToEnd ==
  pc = "draw" /\ lidx = 1 =>
    /\ Drawn.raised = ""
    /\ Drawn.upper # <<>> /\ Drawn.lower # <<>>
    /\ NonDecreasingX(Drawn.upper) /\ NonDecreasingX(Drawn.lower)
    /\ {Drawn.upper[1], Drawn.lower[1]} = {<<0, Rat(45)>>, <<0, Rat(55)>>}
    /\ {Drawn.upper[Len(Drawn.upper)], Drawn.lower[Len(Drawn.lower)]}
         = {<<view_width, Rat(140)>>, <<view_width, Rat(160)>>}

\* the accesses of the step thread t is about to take
Pending(t) ==
  IF fn.th[t].pc = "compile"
  THEN {Write("lineage.computed_segments", t), Write("lineage.membership_events", t)}
  ELSE IF fn.th[t].pc = "loop"
  THEN IF ~fn.th[t].c.broke /\ fn.th[t].c.current_x < fn.th[t].c.max_x
       THEN StepAccesses(lineages, bundles, view_width, t, fn.th[t].c) ELSE {}
  ELSE IF fn.th[t].pc = "draw" THEN DrawAccesses(lineages, bundles, view_width, t)
  ELSE {}

\* two accesses to one location, one of them a write
Conflicts(as, bs) == {<<a, b>> \in as \X bs : a.loc = b.loc /\ (a.write \/ b.write)}

\* lineages a and b are members of a common bundle
ShareBundle(a, b) ==
  \E k \in 1..Len(bundles) :
    /\ \E i \in 1..Len(bundles[k].memberships) : bundles[k].memberships[i].lineage = a
    /\ \E i \in 1..Len(bundles[k].memberships) : bundles[k].memberships[i].lineage = b

\* C18 (as stated): two lineages that are members of no common bundle run
\* compile_segments and draw concurrently without a data race: no step of one
\* writes a list (events, memberships, point cache, segments) that a step of the
\* other, enabled in the same state, reads or writes, the in-place sorts included.
\* compile_segments sorts its lineage's membership events while _resolve_target_y of
\* another lineage walks them, and two bundles sort the scale events of a lineage
\* that was a member of both
C18_NoDataRace ==
  pc = "threads" /\ ~ShareBundle(1, 2) => Conflicts(Pending(1), Pending(2)) = {}

\* an iteration of the while loop of compile_segments is taken
LoopIterates == pc = "loop" /\ pc' = "loop" /\ cs' # cs

\* the lineage being compiled and the segments the iteration appends
Emitted ==
  SubSeq(lineages'[lidx].computed_segments, Len(Segs(lidx)) + 1,
         Len(lineages'[lidx].computed_segments))

HasNextEvent == cs.event_index < Len(lineages[lidx].membership_events)

\* the first segment is Dependent exactly when the lineage was created in a bundle
FirstSegmentKind ==
  Segs(lidx) = <<>> /\ Emitted # <<>> =>
    (Emitted[1].kind = DEPENDENT <=> lineages[lidx]._initial_bundle # NoRef)

\* a JOIN met in the INDEPENDENT state
JoinTransition ==
  ~cs.is_dependent /\ HasNextEvent /\ NextEvent(lineages[lidx], cs).type = JOIN =>
    /\ Len(Emitted) = 1
    /\ Emitted[1].kind = INDEPENDENT
    /\ Emitted[1].end_x = NextEvent(lineages[lidx], cs).to_x
    /\ cs'.is_dependent
    /\ cs'.current_bundle = NextEvent(lineages[lidx], cs).assembly
    /\ cs'.event_index = cs.event_index + 1

\* a LEAVE met in the DEPENDENT state
LeaveTransition ==
  cs.is_dependent /\ HasNextEvent /\ NextEvent(lineages[lidx], cs).type = LEAVE =>
    /\ Len(Emitted) = 2
    /\ Emitted[1].kind = DEPENDENT
    /\ Emitted[1].end_x = NextEvent(lineages[lidx], cs).from_x
    /\ Emitted[2].kind = INDEPENDENT
    /\ Emitted[2].start_x = NextEvent(lineages[lidx], cs).from_x
    /\ Emitted[2].end_x = NextEvent(lineages[lidx], cs).to_x
    /\ ~cs'.is_dependent
    /\ cs'.event_index = cs.event_index + 1

\* no further event: one segment of the state's kind up to the end, and the loop is left
FinalTransition ==
  ~HasNextEvent =>
    /\ Len(Emitted) = 1
    /\ Emitted[1].kind = (IF cs.is_dependent THEN DEPENDENT ELSE INDEPENDENT)
    /\ Emitted[1].end_x = cs.max_x
    /\ cs'.broke

\* C19: compile_segments follows the two-state machine: the first emitted segment is
\* Dependent exactly when the lineage was created inside a bundle; a JOIN met in the
\* INDEPENDENT state emits one IndependentSegment ending at join.to_x and switches to
\* DEPENDENT on the JOIN's bundle; a LEAVE met in the DEPENDENT state emits one
\* DependentSegment ending at leave.from_x, then one IndependentSegment over
\* [leave.from_x, leave.to_x], and switches to INDEPENDENT; an iteration that finds no
\* further event emits exactly one final segment of the current state's kind
C19_TwoStateMachine ==
  [][LoopIterates /\ Len(Segs(lidx)) + 2 <= MaxSegments =>
       FirstSegmentKind /\ JoinTransition /\ LeaveTransition /\ FinalTransition]_vars

\* a lineage went through a JOIN, a LEAVE and the final segment
C19_Witness ==
  /\ pc = "draw"
  /\ Kinds(lidx) = <<INDEPENDENT, DEPENDENT, INDEPENDENT, INDEPENDENT>>
  /\ lineages[lidx]._initial_bundle = NoRef

\* compile_segments returns: the while loop is left
CompileReturns20 == pc = "loop" /\ pc' = "draw"

\* the membership events event_index has advanced past
Consumed == SubSeq(lineages[lidx].membership_events, 1, cs.event_index)

\* every membership event that begins before the lineage's end was consumed
AllConsumed ==
  \A i \in 1..Len(lineages[lidx].membership_events) :
    lineages[lidx].membership_events[i].from_x < EndOf(lidx) => i <= cs.event_index

\* the bundle of a DependentSegment is the initial bundle or the bundle of the consumed
\* JOIN that led into it, and the consumed LEAVE that ends it names the same bundle
DependentBundlesNamed ==
  \A i \in 1..Len(Segs(lidx)) :
    Segs(lidx)[i].kind = DEPENDENT =>
      /\ \/ i = 1 /\ Segs(lidx)[i].bundle = lineages[lidx]._initial_bundle
         \/ \E j \in 1..Len(Consumed) :
              /\ Consumed[j].type = JOIN
              /\ Consumed[j].to_x = Segs(lidx)[i].start_x
              /\ Consumed[j].assembly = Segs(lidx)[i].bundle
      /\ i < Len(Segs(lidx)) =>
           \E j \in 1..Len(Consumed) :
             /\ Consumed[j].type = LEAVE
             /\ Consumed[j].from_x = Segs(lidx)[i].end_x
             /\ Consumed[j].assembly = Segs(lidx)[i].bundle

\* C20 (as stated): when compile_segments returns, every membership event whose
\* from_x is before the lineage's end has been consumed by a state transition
\* (event_index advanced past it), so no JOIN or LEAVE before the end is skipped, and
\* every DependentSegment references the bundle of the most recently consumed JOIN
\* (or the initial bundle), which the LEAVE that ends it names too.
\* A JOIN met in the DEPENDENT state emits the final segment and breaks: the JOIN and
\* every later event stay unconsumed
C20_EveryEventConsumed ==
  [][CompileReturns20 /\ Len(Segs(lidx)) < MaxSegments =>
       AllConsumed /\ DependentBundlesNamed]_vars

\* list s without its p-th element
Without(s, p) == SubSeq(s, 1, p - 1) \o SubSeq(s, p + 1, Len(s))

\* the bundles other than the one the call names are as they were
OtherBundlesKept == \A k \in 1..Len(bundles) : k # fn.bundle => bundles[k] = fn.before[k]

\* the memberships of the named bundle before and after the call
MembersBefore == fn.before[fn.bundle].memberships
MembersAfter  == bundles[fn.bundle].memberships

\* the membership a leave back-patches: of the calling lineage, containing from_x
Patchable(i) ==
  /\ MembersBefore[i].lineage = fn.lineage
  /\ MembersBefore[i].start_x <= fn.from_x
  /\ fn.from_x <= MembersBefore[i].end_x

JoinAddsOne ==
  /\ OtherBundlesKept
  /\ Len(bundles) = Len(fn.before)
  /\ [bundles[fn.bundle] EXCEPT !.memberships = <<>>]
       = [fn.before[fn.bundle] EXCEPT !.memberships = <<>>]
  /\ \E p \in 1..Len(MembersAfter) :
       /\ MembersAfter[p] = BundleMembership(fn.lineage, fn.from_x, view_width,
                                             fn.to_x - fn.from_x, 0)
       /\ Without(MembersAfter, p) = MembersBefore
       /\ fn.index = -1 => p = Len(MembersAfter)

LeavePatchesFirst ==
  /\ OtherBundlesKept
  /\ Len(bundles) = Len(fn.before)
  /\ Len(MembersAfter) = Len(MembersBefore)
  /\ [bundles[fn.bundle] EXCEPT !.memberships = <<>>]
       = [fn.before[fn.bundle] EXCEPT !.memberships = <<>>]
  /\ \A i \in 1..Len(MembersBefore) :
       IF Patchable(i) /\ \A j \in 1..(i - 1) : ~Patchable(j)
       THEN MembersAfter[i] = [MembersBefore[i] EXCEPT !.end_x = fn.to_x,
                                 !.fade_out_duration = fn.to_x - fn.from_x]
       ELSE MembersAfter[i] = MembersBefore[i]

\* C21: join(from_x, to_x, B) adds exactly one membership to B, with start_x = from_x,
\* end_x = view_width, fade_in_duration = to_x - from_x and fade_out_duration = 0 (at
\* the end of the list without an index); leave(from_x, to_x, B, ...) sets end_x = to_x
\* and fade_out_duration = to_x - from_x on at most one membership, the first one of
\* the calling lineage in B whose interval contains from_x, and changes no other
\* membership, no other bundle and never the number of memberships
C21_JoinLeaveMemberships ==
  /\ fn.op = "join" => JoinAddsOne
  /\ fn.op = "leave" => LeavePatchesFirst

\* a leave found two memberships of its lineage containing from_x, behind a membership
\* of the other lineage, and patched the first of them
C21_Witness ==
  /\ fn.op = "leave"
  /\ \E i, j \in 1..Len(MembersBefore) :
       /\ i < j /\ Patchable(i) /\ Patchable(j)
       /\ MembersAfter[i] # MembersBefore[i]
       /\ \E k \in 1..(i - 1) : MembersBefore[k].lineage # fn.lineage
                                /\ MembersBefore[k].start_x <= fn.from_x

\* segment i of lineage l is a DependentSegment ended by a LEAVE: the leave segment follows
LeaveSeam(l, i) ==
  /\ i < Len(Segs(l))
  /\ Segs(l)[i].kind = DEPENDENT
  /\ Segs(l)[i + 1].kind = INDEPENDENT

\* the LEAVE of lineage l whose transition starts at from_x
LeaveEventAt(l, from_x) ==
  CHOOSE ev \in {lineages[l].membership_events[k] : k \in 1..Len(lineages[l].membership_events)} :
    ev.type = LEAVE /\ ev.from_x = from_x

\* the Y the leave shifts to: the target's resolved position plus offset when the LEAVE
\* names a target lineage that resolves, the static to_y otherwise
LeaveTargetY(ev, resolved_y) ==
  IF ev.target_lineage # NoRef /\ ~IsNone(resolved_y) THEN resolved_y ELSE ev.target_y

LeaveSeamContinuous(l, dep, leave_seg, ev) ==
  /\ leave_seg.start_x = ev.from_x
  /\ leave_seg.end_x = ev.to_x
  /\ leave_seg.start_y = CenterYOfMemberAt(bundles[dep.bundle], lineages, view_width,
                                           ev.from_x + 1, l)
  /\ BaselineEnd(leave_seg)
       = <<ev.to_x,
           LeaveTargetY(ev, IF ev.target_lineage # NoRef
                            THEN _resolve_target_y(lineages, bundles, view_width,
                                                   ev.target_lineage, ev.to_x, ev.offset_y)
                            ELSE NoneR)>>

\* C22 (as stated): the baseline is Y-continuous across a LEAVE: the IndependentSegment
\* emitted for the LEAVE starts at the bundle's member-centre Y of the lineage at
\* leave.from_x (the code asks 1e-3 after it) and ends at the resolved target Y of the
\* leave (the static to_y, or the resolved target position plus offset), and the
\* independent segment that follows it starts at that same end Y.
\* After a LEAVE compile_segments continues from the static target_y, also when the
\* shift went to the resolved Y
C22_LeaveContinuity ==
  \A l \in 1..Len(lineages) :
    Compiled(l) =>
      \A i \in 1..Len(Segs(l)) :
        LeaveSeam(l, i) =>
          /\ LeaveSeamContinuous(l, Segs(l)[i], Segs(l)[i + 1],
                                 LeaveEventAt(l, Segs(l)[i + 1].start_x))
          /\ i + 2 <= Len(Segs(l)) /\ Segs(l)[i + 2].kind = INDEPENDENT =>
               /\ Segs(l)[i + 2].start_x = Segs(l)[i + 1].end_x
               /\ Segs(l)[i + 2].start_y = BaselineEnd(Segs(l)[i + 1])[2]

\* |a - b| <= t
RNear(a, b, t) == RLe(RSub(a, b), t) /\ RLe(RSub(b, a), t)

\* min(max(v, 0), hi)
RClamp(v, hi) == RMin(RMax(v, Zero), hi)

\* the gaps before any correction: 0.5 * margin * (f_i + f_{i+1})
RawGaps(margin, f) ==
  [i \in 1..(Len(f) - 1) |-> RMul(RMul(Half, margin), RAdd(f[i], f[i + 1]))]

\* what is left of each gap once `excess` was taken from the first gaps in order
TakenFromStart(g, excess) ==
  [i \in 1..Len(g) |-> RClamp(RSub(RSum(SubSeq(g, 1, i)), excess), g[i])]

\* what is left of each gap once `excess` was taken from the last gaps in reverse order
TakenFromEnd(g, excess) ==
  [i \in 1..Len(g) |-> RClamp(RSub(RSum(SubSeq(g, i, Len(g))), excess), g[i])]

StartExcess(margin, f) == RMul(RMul(Half, margin), RSub(One, f[1]))
EndExcess(margin, f)   == RMul(RMul(Half, margin), RSub(One, f[Len(f)]))

ExpectedGaps(margin, f) ==
  TakenFromEnd(TakenFromStart(RawGaps(margin, f), StartExcess(margin, f)),
               EndExcess(margin, f))

ExpectedGapSum(margin, f) ==
  RMax(Zero, RSub(RSub(RSum(RawGaps(margin, f)), StartExcess(margin, f)),
                  EndExcess(margin, f)))

LayoutReturned == fn.op = "_calculate_layout" /\ Len(fn.factors) >= 2

\* C23: for N >= 2 active members with factors f_1..f_N every gap _calculate_layout
\* returns lies in [0, margin]; the gaps sum to max(0, sum_i 0.5*margin*(f_i + f_{i+1})
\* - 0.5*margin*(1 - f_1) - 0.5*margin*(1 - f_N)), each of the two corrections leaving
\* at most the cut-off untaken; the start excess is taken from the first gaps in order
\* and the end excess from the last gaps in reverse order; a boundary member with
\* factor 0 adds neither width nor margin
C23_GapCorrection ==
  LayoutReturned =>
    /\ Len(fn.gaps) = Len(fn.factors)
    /\ \A i \in 1..Len(fn.gaps) : RLe(Zero, fn.gaps[i]) /\ RLe(fn.gaps[i], fn.margin)
    /\ RNear(RSum(fn.gaps), ExpectedGapSum(fn.margin, fn.factors), RMul(Rat(2), Tol5))
    /\ \A i \in 1..(Len(fn.factors) - 1) :
         RNear(fn.gaps[i], ExpectedGaps(fn.margin, fn.factors)[i], RMul(Rat(2), Tol5))
    /\ fn.factors[1] = Zero => fn.widths[1] = Zero /\ fn.gaps[1] = Zero
    /\ fn.factors[Len(fn.factors)] = Zero =>
         /\ fn.widths[Len(fn.factors)] = Zero
         /\ fn.gaps[Len(fn.factors) - 1] = Zero

\* the start excess of a first member with factor 0 emptied the first gap and took a
\* part of the second, and the end excess took a part of the last gap
C23_Witness ==
  /\ LayoutReturned
  /\ Len(fn.factors) = 4
  /\ fn.factors[1] = Zero
  /\ fn.gaps[1] = Zero
  /\ RLt(Zero, fn.gaps[2]) /\ RLt(fn.gaps[2], RawGaps(fn.margin, fn.factors)[2])
  /\ RLt(Zero, fn.gaps[3]) /\ RLt(fn.gaps[3], RawGaps(fn.margin, fn.factors)[3])

\* the slots in the stacking walk of the members of bundle b active at x
SlotsAt(b, x) == StackOffsets(bundles[b], lineages, x)

\* the Y of the points of a point list that lie at x
YsAt(points, x) ==
  LET at_x == SelectSeq(points, LAMBDA p : p[1] = x)
  IN [k \in 1..Len(at_x) |-> at_x[k][2]]

\* the Y of the upper edges (edge 1) or lower edges (edge 2) of the slots of `lineage`
\* among `slots`, in walk order
EdgeYs(b, slots, lineage, edge) ==
  LET own == SelectSeq(slots, LAMBDA s : s.lineage = lineage)
  IN [k \in 1..Len(own) |->
        RAdd(bundles[b].start_y,
             IF edge = 1 THEN own[k].upper_offset ELSE own[k].lower_offset)]

\* the slots at x follow the membership list: one slot per active membership in list
\* order, each below the next, the first at minus half of the total
StackedInOrder(active, slots) ==
  LET n == Len(slots)
  IN /\ n = Len(active)
     /\ \A i \in 1..n : slots[i].lineage = active[i].lineage
     /\ \A i \in 1..n : RLe(slots[i].lower_offset, slots[i].upper_offset)
     /\ \A i, j \in 1..n : i < j => RLe(slots[i].upper_offset, slots[j].lower_offset)
     /\ n > 0 => RAdd(slots[1].lower_offset, slots[n].upper_offset) = Zero

\* the on-demand query answers with the first slot of the lineage in the walk
QueryFollowsWalk(b, x, slots, geometry_at) ==
  \A l \in {slots[i].lineage : i \in 1..Len(slots)} :
    /\ geometry_at[l][1][2] = EdgeYs(b, slots, l, 1)[1]
    /\ geometry_at[l][2][2] = EdgeYs(b, slots, l, 2)[1]

\* the solve pass stored, for the sample at x, the points of the same walk
SolvedFollowsWalk(b, x, slots) ==
  \A l \in DOMAIN bundles[b].compiled_member_points :
    /\ YsAt(bundles[b].compiled_member_points[l][1], x) = EdgeYs(b, slots, l, 1)
    /\ YsAt(bundles[b].compiled_member_points[l][2], x) = EdgeYs(b, slots, l, 2)

\* the memberships active at x are those of the membership list, in its order
RECURSIVE IsSubSeq(_, _)
IsSubSeq(s, t) ==
  IF s = <<>> THEN TRUE
  ELSE IF t = <<>> THEN FALSE
  ELSE IF Head(s) = Head(t) THEN IsSubSeq(Tail(s), Tail(t))
  ELSE IsSubSeq(s, Tail(t))

StackSolved == pc = "compile"

\* C24: at every X the members of a bundle are stacked in the order of its membership
\* list: the active memberships are walked in list order, every slot lies below the
\* slots after it (upper_A <= lower_B), the first slot starts at minus half of the total
\* width, and the solve pass and the on-demand query place every member by this one walk
C24_StackedInListOrder ==
  StackSolved =>
    \A b \in 1..Len(bundles) :
      /\ \A x \in 0..MaxX :
           /\ IsSubSeq(ActiveAt(b, x), bundles[b].memberships)
           /\ StackedInOrder(ActiveAt(b, x), SlotsAt(b, x))
           /\ QueryFollowsWalk(b, x, SlotsAt(b, x),
                [l \in 1..Len(lineages) |->
                   _get_member_geometry_at(bundles[b], lineages, view_width, x, l)])
      /\ \A i \in 1..resolution :
           SolvedFollowsWalk(b, SampleX(bundles[b], view_width, resolution, i),
                             SlotsAt(b, SampleX(bundles[b], view_width, resolution, i)))

\* bundle 1 was solved after a join at index 0 put a member first: at some X three
\* memberships are active, one of them fading, in slots strictly apart
C24_Witness ==
  /\ StackSolved
  /\ fn.op = "join" /\ fn.index = 0
  /\ bundles[1].memberships[1].lineage = fn.lineage
  /\ bundles[1].compiled_member_points[fn.lineage][1] # <<>>
  /\ \E x \in 0..MaxX :
       /\ Len(SlotsAt(1, x)) >= 3
       /\ RLt(SlotsAt(1, x)[1].upper_offset, SlotsAt(1, x)[2].lower_offset)
       /\ RLt(SlotsAt(1, x)[2].upper_offset, SlotsAt(1, x)[3].lower_offset)
       /\ \E k \in 1..3 :
            /\ RLt(Zero, _get_factor(ActiveAt(1, x)[k], x))
            /\ RLt(_get_factor(ActiveAt(1, x)[k], x), One)

\* the shift events of `events` that lie wholly inside [current_x, end_segment_x]
WhollyInside(events, current_x, end_segment_x) ==
  SelectSeq(events, LAMBDA e : e.from_x >= current_x /\ e.to_x <= end_segment_x)

\* the end of the independent span the iteration works on
SpanEnd ==
  IF HasNextEvent THEN NextEvent(lineages[lidx], cs).from_x ELSE cs.max_x

\* the script's shift events among those of a segment (no transition has their span)
UserShifts(segment) ==
  SelectSeq(segment.shift_events, LAMBDA e : <<e.from_x, e.to_x>> \in SpanShifts)

\* an INDEPENDENT iteration hands its segment the shift events wholly inside the span,
\* followed by the transition shift when the next event is a JOIN
IndependentCollects ==
  ~cs.is_dependent /\ Emitted # <<>> =>
    LET inside == WhollyInside(lineages[lidx].shift_events, cs.current_x, SpanEnd)
    IN /\ Len(Emitted) = 1
       /\ UserShifts(Emitted[1]) = inside
       /\ Emitted[1].shift_events =
            IF HasNextEvent /\ NextEvent(lineages[lidx], cs).type = JOIN
            THEN Append(inside, Emitted[1].shift_events[Len(Emitted[1].shift_events)])
            ELSE inside

\* a DEPENDENT iteration hands no segment a shift event of the script
DependentCollectsNone ==
  cs.is_dependent => \A i \in 1..Len(Emitted) : UserShifts(Emitted[i]) = <<>>

\* how often the shift event e is found in the segments compiled for lineage l
RECURSIVE TimesApplied(_, _)
TimesApplied(segments, e) ==
  IF segments = <<>> THEN 0
  ELSE Len(SelectSeq(Head(segments).shift_events, LAMBDA s : s = e))
       + TimesApplied(Tail(segments), e)

\* no shift event is found in the segments more often than the script added it
AppliedAtMostOnce ==
  \A l \in 1..Len(lineages) : \A k \in 1..Len(lineages[l].shift_events) :
    TimesApplied(Segs(l), lineages[l].shift_events[k])
      <= Len(SelectSeq(lineages[l].shift_events,
                       LAMBDA s : s = lineages[l].shift_events[k]))

\* C25: an iteration of compile_segments in the INDEPENDENT state hands its segment
\* exactly the shift events with from_x >= current_x and to_x <= the next membership
\* event's from_x (the lineage end when there is none); an iteration in the DEPENDENT
\* state hands none to the segments it emits, the leave transition included; and no
\* shift event with from_x < to_x reaches more than one segment
C25_ShiftsInsideIndependentSpans ==
  [][/\ LoopIterates /\ Len(Segs(lidx)) + 2 <= MaxSegments =>
          IndependentCollects /\ DependentCollectsNone
     /\ AppliedAtMostOnce']_vars

\* lineage 1 is compiled with a stay in a bundle: one shift of the script was applied
\* in an independent segment and another one, which no independent span holds, nowhere
C25_Witness ==
  /\ pc = "draw"
  /\ lidx = 1
  /\ \E i, j \in 1..Len(Segs(1)) :
       /\ Segs(1)[i].kind = INDEPENDENT /\ UserShifts(Segs(1)[i]) # <<>>
       /\ Segs(1)[j].kind = DEPENDENT
  /\ \E k \in 1..Len(lineages[1].shift_events) :
       TimesApplied(Segs(1), lineages[1].shift_events[k]) = 0

\* get_compiled_points_for returned for a lineage that has points in the cache
PointsReturned ==
  /\ fn.op = "get_compiled_points_for"
  /\ fn.lineage \in DOMAIN fn.before[fn.bundle].compiled_member_points

\* the two returned sequences are as long as each other, and the cache is as before
PointsPairedCacheKept ==
  /\ Len(fn.result[1]) = Len(fn.result[2])
  /\ fn.after[fn.bundle].compiled_member_points
       = fn.before[fn.bundle].compiled_member_points

\* the returned upper sequence runs from X = start_x to X = end_x
PointsReachBoundaries ==
  /\ fn.result[1] # <<>>
  /\ RNear(Rat(fn.result[1][1][1]), Rat(fn.x), Tol5)
  /\ RNear(Rat(fn.result[1][Len(fn.result[1])][1]), Rat(fn.end_x), Tol5)

\* C26: get_compiled_points_for(L, start_x, end_x) for a member L with start_x <= end_x
\* returns an upper sequence whose first point is at X = start_x and whose last point is
\* at X = end_x (within 1e-5), an upper and a lower sequence of the same length, and
\* leaves the cache as it was
C26_PointsReachBoundaries ==
  PointsReturned => PointsPairedCacheKept /\ PointsReachBoundaries

\* the step is bundle b's solve_geometry
SolvesBundle(b) == pc = "solve" /\ bidx = b /\ bidx' = b + 1

\* the step belongs to lineage l's compile_segments
CompilesLineage(l) == pc \in {"compile", "loop"} /\ pc' = "loop" /\ lidx = l

\* the number of memberships of `lineage` active at the samples 1..i of bundle b
RECURSIVE PairsExpected(_, _, _)
PairsExpected(b, lineage, i) ==
  IF i = 0 THEN 0
  ELSE PairsExpected(b, lineage, i - 1)
       + Len(SelectSeq(get_memberships_at(b, SampleX(b, view_width, resolution, i)),
                       LAMBDA membership : membership.lineage = lineage))

\* the cache solve_geometry leaves: a key per member, one (upper, lower) pair per active
\* membership per sample, and the same cache when the bundle is solved once more
CacheSolved(b) ==
  /\ DOMAIN b.compiled_member_points = Members(b)
  /\ \A l \in Members(b) :
       /\ Len(b.compiled_member_points[l][1]) = PairsExpected(b, l, resolution)
       /\ Len(b.compiled_member_points[l][2]) = PairsExpected(b, l, resolution)
  /\ solve_geometry(b, lineages, view_width, resolution).compiled_member_points
       = b.compiled_member_points

\* C27: a bundle's compiled_member_points changes only in that bundle's solve_geometry,
\* which leaves one (upper, lower) pair per active member per sample, both lists of a
\* member of the same length, whatever the cache held; compile_segments, draw, centre
\* queries and point lookups leave it as it is; and a lineage's computed_segments
\* changes only in that lineage's own compile_segments
C27_SoleWriters ==
  [][/\ \A b \in 1..Len(bundles) :
          /\ bundles'[b].compiled_member_points # bundles[b].compiled_member_points
               => SolvesBundle(b)
          /\ SolvesBundle(b) => CacheSolved(bundles'[b])
     /\ \A l \in 1..Len(lineages) :
          lineages'[l].computed_segments # lineages[l].computed_segments
            => CompilesLineage(l)]_vars

\* a lookup returned points of a solved cache after lineage 1 was compiled, and the
\* cache of the bundle and the segments of the lineage are still there
C27_Witness ==
  /\ pc = "compile"
  /\ lidx = 2
  /\ fn.op = "get_compiled_points_for"
  /\ fn.result[1] # <<>>
  /\ fn.result[1] # bundles[fn.bundle].compiled_member_points[fn.lineage][1]
  /\ Segs(1) # <<>>

\* C28: the event lists are unordered inputs: for shift events with pairwise distinct
\* from_x the baseline get_baseline_path builds, and for scale events with pairwise
\* distinct from_x the width get_width_at returns at every X, are the same whatever the
\* order in which the events were added
C28_InsertionOrderIrrelevant ==
  fn.op \in {"get_baseline_path", "get_width_at"} => fn.first_result = fn.second_result

\* three events were added in two orders, one of them not sorted by from_x, and the
\* results are a baseline that shifts and a width that varies along X
C28_Witness ==
  /\ fn.op \in {"get_baseline_path", "get_width_at"}
  /\ Len(fn.first) = 3
  /\ fn.first # fn.second
  /\ fn.second # SortByFromX(fn.second)
  /\ \/ fn.op = "get_baseline_path" /\ Len(fn.first_result) >= 4
     \/ fn.op = "get_width_at"
        /\ \E x, y \in WidthXs : fn.first_result[x] # fn.first_result[y]

\* every JOIN of lineage l is over before any LEAVE that follows it begins
JoinsEndBeforeLeaves(l) ==
  LET events == SortByFromX(lineages[l].membership_events)
  IN /\ \A i \in 1..Len(events) : events[i].from_x < events[i].to_x
     /\ \A i, j \in 1..Len(events) :
          i < j /\ events[i].type = JOIN /\ events[j].type = LEAVE
            => events[i].to_x <= events[j].from_x

\* the segments compiled so far for lineage l follow each other along X
ContiguousInX(l) ==
  /\ Segs(l) # <<>> => Segs(l)[1].start_x = lineages[l].start_x
  /\ \A i \in 1..Len(Segs(l)) : Segs(l)[i].start_x <= Segs(l)[i].end_x
  /\ \A i \in 1..(Len(Segs(l)) - 1) : Segs(l)[i + 1].start_x = Segs(l)[i].end_x

\* C29: the segments compiled for a lineage are contiguous in X: the first starts at the
\* lineage's start_x, every segment has start_x <= end_x, and each following segment
\* starts at the end_x of the one before it, for every list of membership events with
\* join.from_x < join.to_x <= leave.from_x < leave.to_x
C29_SegmentsContiguous ==
  \A l \in 1..Len(lineages) : JoinsEndBeforeLeaves(l) => ContiguousInX(l)

\* the calls of compile() on the followed segment object so far
CompileResults == IF fn.op = "compile" THEN fn.results ELSE <<>>

\* C30: calling compile() again on the same segment returns the upper and lower point
\* sequences the first call returned, with no point of an earlier call among them
C30_CompileRepeatable ==
  \A i \in 1..Len(CompileResults) :
    /\ CompileResults[i].raised = ""
    /\ CompileResults[i].upper = CompileResults[1].upper
    /\ CompileResults[i].lower = CompileResults[1].lower

====
